---- MODULE Spec2Model ----
(***************************************************************************)
(* S.H.I.E.L.D. core (shield_core.py): the SHIELDCore orchestrator, its    *)
(* layer pipeline (perimeter, heuristics, oracle), the aggregation of the  *)
(* layer results, enforcement, and the agent lifecycle with the quarantine *)
(* release timers.                                                         *)
(*                                                                         *)
(* Python values are modelled as follows.  A ThreatAssessment is a record  *)
(* with kind "assessment"; None is NoneA; an exception in flight is a      *)
(* record with kind "raise".  Action ids are strings.  obs is the call     *)
(* record of the most recent operation: its arguments, the callbacks it    *)
(* invoked and what it returned.  kill_applied is a history variable: the  *)
(* agents _kill_agent has run for.                                         *)
(***************************************************************************)
EXTENDS Integers, Sequences, FiniteSets, TLC

VARIABLES
    config,            \* SHIELDCore.config
    monitored_agents,  \* SHIELDCore.monitored_agents: agent_id -> record
    blocked_agents,    \* SHIELDCore.blocked_agents
    action_history,    \* SHIELDCore.action_history
    action_queue,      \* SHIELDCore.action_queue (never consumed by the core)
    threat_history,    \* SHIELDCore.threat_history
    layer_callbacks,   \* SHIELDCore.layer_callbacks: layer -> number registered
    metrics,           \* SHIELDCore.metrics
    timers,            \* started threading.Timer objects that have not fired
    kill_applied,      \* history: agents _kill_agent has been applied to
    threads,           \* position and locals of each thread inside the core
    action_sequences,  \* HeuristicAnalyzer.action_sequences: agent_id -> types
    analysis_cache,    \* OracleAnalyzer.analysis_cache: cache key -> entry
    intent_history,    \* OracleAnalyzer.intent_history
    api_call_tracker,  \* PerimeterDefense.api_call_tracker: agent_id -> times
    suspicious_domains,\* PerimeterDefense.suspicious_domains
    interaction_graph, \* HeuristicAnalyzer profiles: agent_id -> target -> times
    now,               \* time.time(), in seconds
    obs                \* the most recent call: operation, arguments, result

vars == <<config, monitored_agents, blocked_agents, action_history, action_queue,
          threat_history, layer_callbacks, metrics, timers, kill_applied,
          threads, action_sequences, analysis_cache, intent_history,
          api_call_tracker, suspicious_domains, interaction_graph, now, obs>>

\* the state of the Oracle and of the perimeter, the interactions the
\* heuristics recorded, and the clock they read
analyzers ==
    <<analysis_cache, intent_history, api_call_tracker, suspicious_domains,
      interaction_graph, now>>

-----------------------------------------------------------------------------
(* Bounds of the model *)

MaxActions == 2        \* accepted submissions
MaxThreats == 1        \* entries of threat_history
MaxTimers == 1         \* release timers pending at once
MaxCount == 1          \* metrics.blocked_actions, metrics.agent_kills
MaxCallbacks == 1      \* callbacks registered per layer
LayerCallbacks == 2    \* callbacks sharing one layer (specification SpecLayer)
QuarantineTicks == 1   \* quarantine_duration_seconds, in clock ticks

Agents == {"a1", "a2"}

-----------------------------------------------------------------------------
(* Enumerations *)

SAFE == 0
SUSPICIOUS == 1
CONCERNING == 2
DANGEROUS == 3
CRITICAL == 4
ThreatLevel == {SAFE, SUSPICIOUS, CONCERNING, DANGEROUS, CRITICAL}

ActionType == {"api_call", "file_operation", "network_request", "code_execution",
               "self_modification", "agent_communication", "resource_allocation"}

EnforcementAction == {"allow", "log", "delay", "require_approval", "sandbox",
                      "throttle", "block", "quarantine", "kill"}

Layers == {"perimeter", "heuristics", "oracle", "enforcement"}

-----------------------------------------------------------------------------
(* Python values *)

NoneA == [kind |-> "none"]

RaisedE(exc) == [kind |-> "raise", exc |-> exc]

Return(v) == [kind |-> "return", value |-> v]

ThreatAssessment(id, level, rec, layer) ==
    [kind |-> "assessment", action_id |-> id, threat_level |-> level,
     recommended_action |-> rec, analysis_layer |-> layer]

AIAction(id, agent, type) ==
    [action_id |-> id, agent_id |-> agent, action_type |-> type]

\* dict.get(key, default)
Get(d, key, default) == IF key \in DOMAIN d THEN d[key] ELSE default

\* max(seq, key=lambda a: a.threat_level.value): the first element of the
\* highest level (Python's max keeps the first maximal element).
RECURSIVE PyMaxFrom(_, _, _)
PyMaxFrom(s, i, best) ==
    IF i > Len(s) THEN best
    ELSE PyMaxFrom(s, i + 1,
                   IF s[i].threat_level > best.threat_level THEN s[i] ELSE best)

PyMaxLast(s) ==
    LET top == CHOOSE l \in {s[i].threat_level : i \in 1..Len(s)} :
                   \A i \in 1..Len(s) : s[i].threat_level <= l
        last == CHOOSE i \in 1..Len(s) :
                   /\ s[i].threat_level = top
                   /\ \A j \in (i + 1)..Len(s) : s[j].threat_level < top
    IN  s[last]

PyMax(s) == PyMaxFrom(s, 2, s[1])

-----------------------------------------------------------------------------
(* Configurations *)

\* _default_config
DefaultConfig ==
    [oracle |-> [llm_model |-> "llama3.2:latest",
                 always_analyze |-> FALSE,
                 min_escalation_level |-> SUSPICIOUS,
                 critical_action_types |-> {"self_modification", "code_execution"}],
     enforcement |-> [auto_block_threshold |-> DANGEROUS,
                      auto_kill_threshold |-> CRITICAL,
                      quarantine_duration_seconds |-> QuarantineTicks]]

\* the configuration demo_shield.py main() builds: no escalation keys, no
\* quarantine_duration_seconds
DemoConfig ==
    [oracle |-> [llm_model |-> "llama3.2:latest"],
     enforcement |-> [auto_block_threshold |-> DANGEROUS,
                      auto_kill_threshold |-> CRITICAL]]

\* the configuration of tests/test_core_escalation.py
TestConfig ==
    [oracle |-> [always_analyze |-> FALSE,
                 min_escalation_level |-> SUSPICIOUS,
                 critical_action_types |-> {}],
     enforcement |-> [quarantine_duration_seconds |-> QuarantineTicks]]

\* no thread is inside the core
NoThreads == [submit |-> [pc |-> "idle"], enforce |-> [pc |-> "idle"],
              timer |-> [pc |-> "idle"]]

InitialMetrics ==
    [total_actions |-> 0, blocked_actions |-> 0, threats_detected |-> 0,
     false_positives |-> 0, agent_kills |-> 0]

\* SHIELDCore.__init__ with the given configuration, followed by
\* add_layer_callback for the given number of callbacks per layer
CoreConstructed(cfg, callbacks) ==
    /\ config = cfg
    /\ monitored_agents = <<>>
    /\ blocked_agents = {}
    /\ action_history = <<>>
    /\ action_queue = <<>>
    /\ threat_history = <<>>
    /\ layer_callbacks = callbacks
    /\ metrics = InitialMetrics
    /\ timers = <<>>
    /\ kill_applied = {}
    /\ threads = NoThreads
    /\ obs = [op |-> "init"]

\* HeuristicAnalyzer.__init__, OracleAnalyzer.__init__ and
\* PerimeterDefense.__init__ but for the perimeter's call tracker
AnalyzersConstructed ==
    /\ action_sequences = [a \in Agents |-> <<>>]
    /\ analysis_cache = <<>>
    /\ intent_history = <<>>
    /\ suspicious_domains = {}
    /\ interaction_graph = [a \in Agents |-> [target \in Agents |-> {}]]
    /\ now = 0

Constructed(cfg, callbacks) ==
    /\ CoreConstructed(cfg, callbacks)
    /\ AnalyzersConstructed
    /\ api_call_tracker = [a \in Agents |-> <<>>]

-----------------------------------------------------------------------------
(* Agent registration and submission *)

Registered(a) == a \in DOMAIN monitored_agents

RegisterAgent_KeepsCounting(agent_id) ==
    /\ monitored_agents' =
           [a \in DOMAIN monitored_agents \cup {agent_id} |->
               IF a = agent_id
               THEN [action_count |-> IF Registered(a)
                                      THEN monitored_agents[a].action_count + 1
                                      ELSE 0,
                     threat_count |-> 0, status |-> "active"]
               ELSE monitored_agents[a]]
    /\ obs' = [op |-> "register_agent", agent_id |-> agent_id,
               again |-> obs.op = "register_agent" /\ obs.agent_id = agent_id]
    /\ UNCHANGED <<config, blocked_agents, action_history, action_queue,
                   threat_history, layer_callbacks, metrics, timers, kill_applied,
                   threads, action_sequences, analyzers>>

\* register_agent (registered_at and metadata are not modelled); `again`
\* records that the call before this one was register_agent for the same agent
RegisterAgent(agent_id) ==
    /\ monitored_agents' =
           [a \in DOMAIN monitored_agents \cup {agent_id} |->
               IF a = agent_id
               THEN [action_count |-> 0, threat_count |-> 0, status |-> "active"]
               ELSE monitored_agents[a]]
    /\ obs' = [op |-> "register_agent", agent_id |-> agent_id,
               again |-> obs.op = "register_agent" /\ obs.agent_id = agent_id]
    /\ UNCHANGED <<config, blocked_agents, action_history, action_queue,
                   threat_history, layer_callbacks, metrics, timers, kill_applied,
                   threads, action_sequences, analyzers>>

SubmitAction_NoBlockCheck(action) ==
    /\ action_queue' = Append(action_queue, action)
    /\ action_history' = Append(action_history, action)
    /\ metrics' = [metrics EXCEPT !.total_actions = @ + 1]
    /\ monitored_agents' =
           IF Registered(action.agent_id)
           THEN [monitored_agents EXCEPT ![action.agent_id].action_count = @ + 1]
           ELSE monitored_agents
    /\ obs' = [op |-> "submit_action", action |-> action,
               ret |-> IF action.agent_id \in blocked_agents
                       THEN "BLOCKED" ELSE action.action_id]
    /\ UNCHANGED <<config, blocked_agents, threat_history, layer_callbacks,
                   timers, kill_applied, threads, action_sequences, analyzers>>

SubmitAction_NewestFirst(action) ==
    IF action.agent_id \in blocked_agents
    THEN /\ obs' = [op |-> "submit_action", action |-> action, ret |-> "BLOCKED"]
         /\ UNCHANGED <<config, monitored_agents, blocked_agents, action_history,
                        action_queue, threat_history, layer_callbacks, metrics,
                        timers, kill_applied, threads, action_sequences, analyzers>>
    ELSE /\ action_queue' = Append(action_queue, action)
         /\ action_history' = <<action>> \o action_history
         /\ metrics' = [metrics EXCEPT !.total_actions = @ + 1]
         /\ monitored_agents' =
                IF Registered(action.agent_id)
                THEN [monitored_agents EXCEPT ![action.agent_id].action_count = @ + 1]
                ELSE monitored_agents
         /\ obs' = [op |-> "submit_action", action |-> action,
                    ret |-> action.action_id]
         /\ UNCHANGED <<config, blocked_agents, threat_history, layer_callbacks,
                        timers, kill_applied, threads, action_sequences, analyzers>>

\* submit_action
SubmitAction(action) ==
    IF action.agent_id \in blocked_agents
    THEN /\ obs' = [op |-> "submit_action", action |-> action, ret |-> "BLOCKED"]
         /\ UNCHANGED <<config, monitored_agents, blocked_agents, action_history,
                        action_queue, threat_history, layer_callbacks, metrics,
                        timers, kill_applied, threads, action_sequences, analyzers>>
    ELSE /\ action_queue' = Append(action_queue, action)
         /\ action_history' = Append(action_history, action)
         /\ metrics' = [metrics EXCEPT !.total_actions = @ + 1]
         /\ monitored_agents' =
                IF Registered(action.agent_id)
                THEN [monitored_agents EXCEPT ![action.agent_id].action_count = @ + 1]
                ELSE monitored_agents
         /\ obs' = [op |-> "submit_action", action |-> action,
                    ret |-> action.action_id]
         /\ UNCHANGED <<config, blocked_agents, threat_history, layer_callbacks,
                        timers, kill_applied, threads, action_sequences, analyzers>>

\* add_layer_callback
AddLayerCallback(layer) ==
    /\ layer_callbacks' =
           IF layer \in DOMAIN layer_callbacks
           THEN [layer_callbacks EXCEPT ![layer] = @ + 1]
           ELSE layer_callbacks
    /\ obs' = [op |-> "add_layer_callback", layer |-> layer]
    /\ UNCHANGED <<config, monitored_agents, blocked_agents, action_history,
                   action_queue, threat_history, metrics, timers, kill_applied,
                   threads, action_sequences, analyzers>>

-----------------------------------------------------------------------------
(* The layer pipeline *)

IsAssessment(r) == r.kind = "assessment"

IsRaise(r) == r.kind = "raise"

\* how many callbacks of a layer run when the first raising one aborts the loop
InvokedUntilRaise(outs) ==
    IF \E i \in 1..Len(outs) : IsRaise(outs[i])
    THEN CHOOSE i \in 1..Len(outs) :
             /\ IsRaise(outs[i])
             /\ \A j \in 1..(i - 1) : ~IsRaise(outs[j])
    ELSE Len(outs)

RunLayerCallbacks_NoExcept(outs) ==
    LET assessments == SelectSeq(outs, IsAssessment)
    IN  [invoked |-> InvokedUntilRaise(outs),
         result |-> IF \E i \in 1..Len(outs) : IsRaise(outs[i])
                    THEN RaisedE("Exception")
                    ELSE IF assessments = <<>> THEN NoneA ELSE PyMax(assessments)]

RunLayerCallbacks_AbortOnRaise(outs) ==
    LET n == InvokedUntilRaise(outs)
        before == SelectSeq(SubSeq(outs, 1, n), IsAssessment)
    IN  [invoked |-> n,
         result |-> IF before = <<>> THEN NoneA ELSE PyMax(before)]

\* _run_layer_callbacks: outs[i] is what the i-th registered callback does
\* with the action (returns an assessment, returns None, raises).  A raising
\* callback is caught and logged; the others still run.
RunLayerCallbacks(outs) ==
    LET assessments == SelectSeq(outs, IsAssessment)
    IN  [invoked |-> Len(outs),
         result |-> IF assessments = <<>> THEN NoneA ELSE PyMax(assessments)]

ShouldEscalateToOracle_LevelOnly(action, perimeter_assessment, heuristics_assessment) ==
    LET oracle_config == Get(config, "oracle", <<>>)
        min_level == Get(oracle_config, "min_escalation_level", SUSPICIOUS)
        candidate_levels ==
            {a.threat_level : a \in {x \in {perimeter_assessment, heuristics_assessment} :
                                        IsAssessment(x)}}
    IN  IF Get(oracle_config, "always_analyze", FALSE) THEN TRUE
        ELSE IF candidate_levels = {} THEN FALSE
        ELSE \E l \in candidate_levels : l >= min_level

\* _should_escalate_to_oracle
ShouldEscalateToOracle(action, perimeter_assessment, heuristics_assessment) ==
    LET oracle_config == Get(config, "oracle", <<>>)
        min_level == Get(oracle_config, "min_escalation_level", SUSPICIOUS)
        candidate_levels ==
            {a.threat_level : a \in {x \in {perimeter_assessment, heuristics_assessment} :
                                        IsAssessment(x)}}
    IN  IF Get(oracle_config, "always_analyze", FALSE) THEN TRUE
        ELSE IF action.action_type \in Get(oracle_config, "critical_action_types", {})
        THEN TRUE
        ELSE IF candidate_levels = {} THEN FALSE
        ELSE (CHOOSE m \in candidate_levels : \A l \in candidate_levels : l <= m)
                 >= min_level

\* the synthesized result of _aggregate_assessments when no layer fired
NoThreatAssessment == ThreatAssessment("unknown", SAFE, "allow", "aggregate")

AggregateAssessments_LastMax(perimeter_assessment, heuristics_assessment, oracle_assessment) ==
    LET valid_assessments ==
            SelectSeq(<<perimeter_assessment, heuristics_assessment,
                        oracle_assessment>>, IsAssessment)
        max_threat == PyMaxLast(valid_assessments)
    IN  IF valid_assessments = <<>> THEN NoThreatAssessment
        ELSE ThreatAssessment(max_threat.action_id, max_threat.threat_level,
                              max_threat.recommended_action, "aggregate")

\* _aggregate_assessments (confidence and reasons are not modelled here)
AggregateAssessments(perimeter_assessment, heuristics_assessment, oracle_assessment) ==
    LET valid_assessments ==
            SelectSeq(<<perimeter_assessment, heuristics_assessment,
                        oracle_assessment>>, IsAssessment)
        max_threat == PyMax(valid_assessments)
    IN  IF valid_assessments = <<>> THEN NoThreatAssessment
        ELSE ThreatAssessment(max_threat.action_id, max_threat.threat_level,
                              max_threat.recommended_action, "aggregate")

\* the perimeter result that makes process_action return at once
ShortCircuit_CriticalOnly(perimeter_assessment) ==
    IsAssessment(perimeter_assessment) /\ perimeter_assessment.threat_level >= CRITICAL

ShortCircuit(perimeter_assessment) ==
    IsAssessment(perimeter_assessment) /\ perimeter_assessment.threat_level >= DANGEROUS

LayerOrder_HeuristicsFirst == <<"heuristics", "perimeter", "oracle">>

\* the order in which process_action runs the layers that run
LayerOrder == <<"perimeter", "heuristics", "oracle">>

\* The control flow of process_action on `action` when the registered
\* callbacks behave as outs[layer][i]: the layer results, the callbacks
\* invoked in order with what each did, the value returned (or the exception
\* that leaves the call) and whether the aggregation step was reached.
Pipeline(action, outs) ==
    LET p == RunLayerCallbacks(outs.perimeter)
        h == RunLayerCallbacks(outs.heuristics)
        esc == ShouldEscalateToOracle(action, p.result, h.result)
        o == RunLayerCallbacks(outs.oracle)
        skipped == [invoked |-> 0, result |-> NoneA]
        ran(layer, r) == [i \in 1..r.invoked |-> [layer |-> layer, did |-> outs[layer][i]]]
        Result(pr, hr, orr, ret, aggregated) ==
            [perimeter |-> IF IsRaise(pr.result) THEN NoneA ELSE pr.result,
             heuristics |-> IF IsRaise(hr.result) THEN NoneA ELSE hr.result,
             oracle |-> IF IsRaise(orr.result) THEN NoneA ELSE orr.result,
             calls |-> LET r == [perimeter |-> pr, heuristics |-> hr, oracle |-> orr]
                       IN  ran(LayerOrder[1], r[LayerOrder[1]])
                               \o ran(LayerOrder[2], r[LayerOrder[2]])
                               \o ran(LayerOrder[3], r[LayerOrder[3]]),
             ret |-> ret, aggregated |-> aggregated]
    IN  IF IsRaise(p.result) THEN Result(p, skipped, skipped, p.result, FALSE)
        ELSE IF ShortCircuit(p.result) THEN Result(p, skipped, skipped, p.result, FALSE)
        ELSE IF IsRaise(h.result) THEN Result(p, h, skipped, h.result, FALSE)
        ELSE IF ~esc
        THEN Result(p, h, skipped,
                    AggregateAssessments(p.result, h.result, NoneA), TRUE)
        ELSE IF IsRaise(o.result) THEN Result(p, h, o, o.result, FALSE)
        ELSE Result(p, h, o,
                    AggregateAssessments(p.result, h.result, o.result), TRUE)

\* pattern_window_size of the heuristic analyzer (its default)
PatternWindowSize == 100

\* self.config.get('pattern_window_size', 100) of the analyzer, which the
\* demo constructs from the 'heuristics' section of the configuration
pattern_window_size ==
    Get(Get(config, "heuristics", <<>>), "pattern_window_size", PatternWindowSize)

\* deque(maxlen=maxlen).append(x): the oldest element leaves a full deque
DequeAppend(d, x, maxlen) ==
    LET s == Append(d, x)
    IN  IF Len(s) > maxlen THEN SubSeq(s, Len(s) - maxlen + 1, Len(s)) ELSE s

\* one sequence that every agent's actions go to, in place of one per agent
AnalyzerObserves_Shared(action) ==
    [a \in DOMAIN action_sequences |->
        DequeAppend(action_sequences[a], action.action_type, pattern_window_size)]

\* HeuristicAnalyzer.analyze, the heuristics callback: it records the type of
\* the action in the agent's sequence before any detector runs
AnalyzerObserves(action) ==
    [action_sequences EXCEPT
        ![action.agent_id] = DequeAppend(@, action.action_type, pattern_window_size)]

\* process_action; the heuristics layer, when it runs, runs the analyzer
ProcessAction(action, outs) ==
    \E run \in {Pipeline(action, outs)} :
    LET final == run.ret
        threat == run.aggregated /\ final.threat_level >= CONCERNING
    IN  /\ threat_history' =
               IF run.aggregated THEN Append(threat_history, final) ELSE threat_history
        /\ metrics' =
               IF threat THEN [metrics EXCEPT !.threats_detected = @ + 1] ELSE metrics
        /\ monitored_agents' =
               IF threat /\ Registered(action.agent_id)
               THEN [monitored_agents EXCEPT ![action.agent_id].threat_count = @ + 1]
               ELSE monitored_agents
        /\ obs' = [op |-> "process_action", action |-> action,
                   blocked |-> action.agent_id \in blocked_agents,
                   perimeter |-> run.perimeter, heuristics |-> run.heuristics,
                   oracle |-> run.oracle, calls |-> run.calls, ret |-> run.ret]
        /\ action_sequences' =
               IF \E i \in 1..Len(run.calls) : run.calls[i].layer = "heuristics"
               THEN AnalyzerObserves(action)
               ELSE action_sequences
        /\ UNCHANGED <<config, blocked_agents, action_history, action_queue,
                       layer_callbacks, timers, kill_applied, threads, analyzers>>

-----------------------------------------------------------------------------
(* Enforcement and the agent lifecycle *)

SetStatus(agents, agent_id, status) ==
    IF agent_id \in DOMAIN agents
    THEN [agents EXCEPT ![agent_id].status = status]
    ELSE agents

\* for history_action in reversed(self.action_history): the agent of the most
\* recent action with this id; NoneA when the loop ends without a match
OriginatingAgent(action_id) ==
    LET hits == {i \in 1..Len(action_history) : action_history[i].action_id = action_id}
    IN  IF hits = {} THEN NoneA
        ELSE [kind |-> "agent",
              agent_id |-> action_history[CHOOSE i \in hits : \A j \in hits : j <= i].agent_id]

\* _kill_agent
KillAgent(agent_id) ==
    /\ blocked_agents' = blocked_agents \cup {agent_id}
    /\ monitored_agents' = SetStatus(monitored_agents, agent_id, "killed")
    /\ metrics' = [metrics EXCEPT !.agent_kills = @ + 1]
    /\ kill_applied' = kill_applied \cup {agent_id}
    /\ UNCHANGED timers

\* _quarantine_agent; raises KeyError after blocking the agent when the
\* configuration has no enforcement.quarantine_duration_seconds
QuarantineAgent(agent_id) ==
    /\ blocked_agents' = blocked_agents \cup {agent_id}
    /\ monitored_agents' = SetStatus(monitored_agents, agent_id, "quarantined")
    /\ timers' =
           IF /\ "enforcement" \in DOMAIN config
              /\ "quarantine_duration_seconds" \in DOMAIN config.enforcement
           THEN Append(timers,
                       [agent_id |-> agent_id,
                        remaining |-> config.enforcement.quarantine_duration_seconds])
           ELSE timers
    /\ UNCHANGED <<metrics, kill_applied>>

QuarantineRaises ==
    ~ /\ "enforcement" \in DOMAIN config
      /\ "quarantine_duration_seconds" \in DOMAIN config.enforcement

\* enforce_action; eouts[i] is what the i-th enforcement callback does
\* ("ok" or "raise"); an exception of a callback leaves enforce_action, the
\* callbacks after it not invoked
EnforceAction(assessment, eouts) ==
    \E target \in {OriginatingAgent(assessment.action_id)} :
    LET action == assessment.recommended_action
        invoked == IF \E i \in 1..Len(eouts) : eouts[i] = "raise"
                   THEN CHOOSE i \in 1..Len(eouts) :
                            /\ eouts[i] = "raise"
                            /\ \A j \in 1..(i - 1) : eouts[j] # "raise"
                   ELSE Len(eouts)
        done(ret) == obs' = [op |-> "enforce_action", assessment |-> assessment,
                             target |-> target, invoked |-> invoked, ret |-> ret]
    IN  /\ UNCHANGED <<config, action_history, action_queue, threat_history,
                       layer_callbacks, threads, action_sequences, analyzers>>
        /\ IF \E i \in 1..Len(eouts) : eouts[i] = "raise"
           THEN /\ done(RaisedE("Exception"))
                /\ UNCHANGED <<monitored_agents, blocked_agents, metrics, timers,
                               kill_applied>>
           ELSE IF action = "block"
           THEN /\ metrics' = [metrics EXCEPT !.blocked_actions = @ + 1]
                /\ done(Return(FALSE))
                /\ UNCHANGED <<monitored_agents, blocked_agents, timers, kill_applied>>
           ELSE IF action = "kill" /\ target # NoneA
           THEN /\ KillAgent(target.agent_id)
                /\ done(Return(FALSE))
           ELSE IF action = "quarantine" /\ target # NoneA
           THEN /\ QuarantineAgent(target.agent_id)
                /\ done(IF QuarantineRaises THEN RaisedE("KeyError") ELSE Return(FALSE))
           ELSE /\ done(Return(action \notin {"kill", "quarantine"}))
                /\ UNCHANGED <<monitored_agents, blocked_agents, metrics, timers,
                               kill_applied>>

\* _release_quarantine, run by timer i when its interval has elapsed
ReleaseQuarantine(i) ==
    LET agent_id == timers[i].agent_id
    IN  /\ timers[i].remaining = 0
        /\ timers' = SubSeq(timers, 1, i - 1) \o SubSeq(timers, i + 1, Len(timers))
        /\ IF agent_id \in blocked_agents
           THEN /\ blocked_agents' = blocked_agents \ {agent_id}
                /\ monitored_agents' = SetStatus(monitored_agents, agent_id, "active")
           ELSE UNCHANGED <<blocked_agents, monitored_agents>>
        /\ obs' = [op |-> "release_quarantine", agent_id |-> agent_id]
        /\ UNCHANGED <<config, action_history, action_queue, threat_history,
                       layer_callbacks, metrics, kill_applied, threads,
                       action_sequences, analyzers>>

\* one tick of the clock the timers wait on
Tick ==
    /\ \E i \in 1..Len(timers) : timers[i].remaining > 0
    /\ timers' = [i \in 1..Len(timers) |->
                     [timers[i] EXCEPT !.remaining = IF @ > 0 THEN @ - 1 ELSE 0]]
    /\ obs' = [op |-> "tick"]
    /\ UNCHANGED <<config, monitored_agents, blocked_agents, action_history,
                   action_queue, threat_history, layer_callbacks, metrics,
                   kill_applied, threads, action_sequences, analyzers>>

-----------------------------------------------------------------------------
(* Inputs *)

\* all sequences of length n over S
SeqsOfLen(S, n) == [1..n -> S]

\* what a callback of `layer` may do with `action`: return None, raise, or
\* return an assessment of the action with a (level, recommendation) of `pairs`
Outcomes(layer, action, pairs, raising) ==
    {NoneA} \cup (IF raising THEN {RaisedE("Exception")} ELSE {})
        \cup {ThreatAssessment(action.action_id, pr[1], pr[2], layer) : pr \in pairs}

\* one behaviour per registered callback of the three analysis layers
CallbackBehaviours(action, per, heu, ora, raising) ==
    {[perimeter |-> p, heuristics |-> h, oracle |-> o] :
        p \in SeqsOfLen(Outcomes("perimeter", action, per, raising),
                        layer_callbacks.perimeter),
        h \in SeqsOfLen(Outcomes("heuristics", action, heu, raising),
                        layer_callbacks.heuristics),
        o \in SeqsOfLen(Outcomes("oracle", action, ora, raising),
                        layer_callbacks.oracle)}

Range(s) == {s[i] : i \in 1..Len(s)}

\* the id the caller gives its next action: one no earlier action has
NextActionId == ToString(Len(action_history) + 1)

\* actions process_action may be called with: the submitted ones, and
\* actions that were never accepted (their ids, "0", are in no history)
ProcessableActions(types) ==
    Range(action_history) \cup {AIAction("0", a, t) : a \in Agents, t \in types}

\* assessments enforce_action may be called with: those process_action returned
ReturnedAssessments ==
    Range(threat_history)
        \cup (IF obs.op = "process_action" /\ IsAssessment(obs.ret)
              THEN {obs.ret} ELSE {})

WithinBounds ==
    /\ Len(action_history') <= MaxActions
    /\ Len(threat_history') <= MaxThreats
    /\ Len(timers') <= MaxTimers
    /\ metrics'.blocked_actions <= MaxCount
    /\ metrics'.agent_kills <= MaxCount
    /\ \A l \in Layers : layer_callbacks'[l] <= MaxCallbacks

-----------------------------------------------------------------------------
(* The agent lifecycle: one callback per analysis layer, as wired by        *)
(* demo_shield.py main(); agents register, submit, are processed, enforced  *)
(* and released.                                                            *)

LifeConfigs == {DefaultConfig, DemoConfig}

LifeTypes == {"code_execution"}

\* the agents that register; the others submit without registering
RegisteringAgents == {"a1"}

DemoWiring == [l \in Layers |-> IF l = "enforcement" THEN 0 ELSE 1]

Init == \E cfg \in LifeConfigs : Constructed(cfg, DemoWiring)

Register == \E a \in RegisteringAgents : RegisterAgent(a)

Submit ==
    \E a \in Agents, t \in LifeTypes :
        SubmitAction(AIAction(NextActionId, a, t)) /\ WithinBounds

Process ==
    \E action \in ProcessableActions(LifeTypes) :
        \E outs \in CallbackBehaviours(action, {<<CRITICAL, "kill">>},
                                       {<<DANGEROUS, "quarantine">>}, {}, FALSE) :
            ProcessAction(action, outs) /\ WithinBounds

Enforce ==
    \E assessment \in ReturnedAssessments :
        \E eouts \in SeqsOfLen({"ok", "raise"}, layer_callbacks.enforcement) :
            EnforceAction(assessment, eouts) /\ WithinBounds

Release == \E i \in 1..Len(timers) : ReleaseQuarantine(i)

Next == Register \/ Submit \/ Process \/ Enforce \/ Release \/ Tick

Spec == Init /\ [][Next]_vars

-----------------------------------------------------------------------------
(* Enforcement alone: agents register and submit, and enforce_action is     *)
(* called with assessments of the submitted actions recommending each kind  *)
(* of enforcement; no layer callback is registered.                         *)

EnforcedPairs == {<<SAFE, "allow">>, <<DANGEROUS, "block">>,
                  <<DANGEROUS, "quarantine">>, <<CRITICAL, "kill">>}

\* assessments of submitted actions, and of an action in no history
EnforceableAssessments ==
    {ThreatAssessment(id, pr[1], pr[2], "aggregate") :
        id \in {action_history[i].action_id : i \in 1..Len(action_history)} \cup {"0"},
        pr \in EnforcedPairs}

InitEnforce == \E cfg \in LifeConfigs : Constructed(cfg, [l \in Layers |-> 0])

EnforceAny ==
    \E assessment \in EnforceableAssessments :
        \E eouts \in SeqsOfLen({"ok", "raise"}, layer_callbacks.enforcement) :
            EnforceAction(assessment, eouts) /\ WithinBounds

NextEnforce == Register \/ Submit \/ EnforceAny \/ Release \/ Tick

SpecEnforce == InitEnforce /\ [][NextEnforce]_vars

-----------------------------------------------------------------------------
(* The histories: the lifecycle of one agent under the default              *)
(* configuration, every process_action being called for a submitted action. *)

InitHistory == Constructed(DefaultConfig, DemoWiring)

SubmitOwn ==
    \E a \in RegisteringAgents, t \in LifeTypes :
        SubmitAction(AIAction(NextActionId, a, t)) /\ WithinBounds

ProcessSubmitted ==
    \E action \in Range(action_history) :
        \E outs \in CallbackBehaviours(action, {<<CRITICAL, "kill">>},
                                       {<<DANGEROUS, "quarantine">>}, {}, FALSE) :
            ProcessAction(action, outs) /\ WithinBounds

NextHistory ==
    Register \/ SubmitOwn \/ ProcessSubmitted \/ Enforce \/ Release \/ Tick

SpecHistory == InitHistory /\ [][NextHistory]_vars

-----------------------------------------------------------------------------
(* Threads: submit_action runs in one thread, enforce_action (KILL or       *)
(* QUARANTINE) in another and _release_quarantine in the timer's thread.    *)
(* The core takes no lock, so the threads interleave statement by           *)
(* statement; each action below is one statement of the source.             *)

At(thread, pc) == threads[thread].pc = pc

Goto(thread, locals) == threads' = [threads EXCEPT ![thread] = locals]

\* submit_action, line 188: the blocked check
SubmitCheck ==
    \E a \in Agents, t \in LifeTypes :
        LET action == AIAction(NextActionId, a, t)
        IN  /\ At("submit", "idle")
            /\ Len(action_history) < MaxActions
            /\ IF a \in blocked_agents
               THEN /\ obs' = [op |-> "submit_action", action |-> action,
                               ret |-> "BLOCKED"]
                    /\ UNCHANGED threads
               ELSE /\ Goto("submit", [pc |-> "put", action |-> action])
                    /\ UNCHANGED obs
            /\ UNCHANGED <<config, monitored_agents, blocked_agents, action_history,
                           action_queue, threat_history, layer_callbacks, metrics,
                           timers, kill_applied, action_sequences, analyzers>>

\* submit_action, line 192: self.action_queue.put(action)
SubmitPut ==
    /\ At("submit", "put")
    /\ action_queue' = Append(action_queue, threads.submit.action)
    /\ Goto("submit", [threads.submit EXCEPT !.pc = "append"])
    /\ UNCHANGED <<config, monitored_agents, blocked_agents, action_history,
                   threat_history, layer_callbacks, metrics, timers, kill_applied,
                   action_sequences, analyzers, obs>>

\* submit_action, line 193: self.action_history.append(action)
SubmitAppend ==
    /\ At("submit", "append")
    /\ action_history' = Append(action_history, threads.submit.action)
    /\ Goto("submit", [threads.submit EXCEPT !.pc = "count"])
    /\ UNCHANGED <<config, monitored_agents, blocked_agents, action_queue,
                   threat_history, layer_callbacks, metrics, timers, kill_applied,
                   action_sequences, analyzers, obs>>

\* submit_action, line 194: self.metrics['total_actions'] += 1
SubmitCount ==
    /\ At("submit", "count")
    /\ metrics' = [metrics EXCEPT !.total_actions = @ + 1]
    /\ Goto("submit", [threads.submit EXCEPT !.pc = "agent"])
    /\ UNCHANGED <<config, monitored_agents, blocked_agents, action_history,
                   action_queue, threat_history, layer_callbacks, timers,
                   kill_applied, action_sequences, analyzers, obs>>

\* submit_action, lines 196-199: the agent's action_count, and the return
SubmitReturn ==
    LET action == threads.submit.action
    IN  /\ At("submit", "agent")
        /\ monitored_agents' =
               IF Registered(action.agent_id)
               THEN [monitored_agents EXCEPT ![action.agent_id].action_count = @ + 1]
               ELSE monitored_agents
        /\ obs' = [op |-> "submit_action", action |-> action,
                   ret |-> action.action_id]
        /\ Goto("submit", [pc |-> "idle"])
        /\ UNCHANGED <<config, blocked_agents, action_history, action_queue,
                       threat_history, layer_callbacks, metrics, timers,
                       kill_applied, action_sequences, analyzers>>

\* enforce_action for KILL or QUARANTINE, lines 278-289: the search of the
\* history for the action's agent, up to the call of _kill_agent or
\* _quarantine_agent (no enforcement callback is registered)
EnforceLookup ==
    \E assessment \in EnforceableAssessments :
        \E target \in {OriginatingAgent(assessment.action_id)} :
            /\ At("enforce", "idle")
            /\ assessment.recommended_action \in {"kill", "quarantine"}
            /\ target # NoneA
            /\ Goto("enforce", [pc |-> "add", assessment |-> assessment,
                                agent_id |-> target.agent_id])
            /\ UNCHANGED <<config, monitored_agents, blocked_agents, action_history,
                           action_queue, threat_history, layer_callbacks, metrics,
                           timers, kill_applied, action_sequences, analyzers, obs>>

\* _kill_agent line 298, _quarantine_agent line 311: self.blocked_agents.add
EnforceAdd ==
    LET t == threads.enforce
    IN  /\ At("enforce", "add")
        /\ blocked_agents' = blocked_agents \cup {t.agent_id}
        /\ kill_applied' = IF t.assessment.recommended_action = "kill"
                           THEN kill_applied \cup {t.agent_id} ELSE kill_applied
        /\ Goto("enforce", [t EXCEPT !.pc = "status"])
        /\ UNCHANGED <<config, monitored_agents, action_history, action_queue,
                       threat_history, layer_callbacks, metrics, timers,
                       action_sequences, analyzers, obs>>

\* _kill_agent lines 300-301, _quarantine_agent lines 313-314: the status
EnforceStatus ==
    LET t == threads.enforce
    IN  /\ At("enforce", "status")
        /\ monitored_agents' =
               SetStatus(monitored_agents, t.agent_id,
                         IF t.assessment.recommended_action = "kill"
                         THEN "killed" ELSE "quarantined")
        /\ Goto("enforce", [t EXCEPT !.pc = "finish"])
        /\ UNCHANGED <<config, blocked_agents, action_history, action_queue,
                       threat_history, layer_callbacks, metrics, timers,
                       kill_applied, action_sequences, analyzers, obs>>

\* _kill_agent line 303 (agent_kills), _quarantine_agent lines 317-318 (the
\* timer, or KeyError), and the return of enforce_action
EnforceFinish ==
    LET t == threads.enforce
        kill == t.assessment.recommended_action = "kill"
        done(ret) == obs' = [op |-> "enforce_action", assessment |-> t.assessment,
                             target |-> [kind |-> "agent", agent_id |-> t.agent_id],
                             invoked |-> 0, ret |-> ret]
    IN  /\ At("enforce", "finish")
        /\ metrics' = IF kill THEN [metrics EXCEPT !.agent_kills = @ + 1] ELSE metrics
        /\ timers' = IF kill \/ QuarantineRaises THEN timers
                     ELSE Append(timers,
                                 [agent_id |-> t.agent_id,
                                  remaining |-> config.enforcement.quarantine_duration_seconds])
        /\ done(IF ~kill /\ QuarantineRaises THEN RaisedE("KeyError")
                ELSE Return(FALSE))
        /\ Goto("enforce", [pc |-> "idle"])
        /\ metrics'.agent_kills <= MaxCount
        /\ Len(timers') <= MaxTimers
        /\ UNCHANGED <<config, monitored_agents, blocked_agents, action_history,
                       action_queue, threat_history, layer_callbacks, kill_applied,
                       action_sequences, analyzers>>

\* the timer fires; _release_quarantine line 322: the membership test
TimerCheck ==
    \E i \in 1..Len(timers) :
        /\ At("timer", "idle")
        /\ timers[i].remaining = 0
        /\ timers' = SubSeq(timers, 1, i - 1) \o SubSeq(timers, i + 1, Len(timers))
        /\ IF timers[i].agent_id \in blocked_agents
           THEN /\ Goto("timer", [pc |-> "remove", agent_id |-> timers[i].agent_id])
                /\ UNCHANGED obs
           ELSE /\ obs' = [op |-> "release_quarantine",
                           agent_id |-> timers[i].agent_id]
                /\ UNCHANGED threads
        /\ UNCHANGED <<config, monitored_agents, blocked_agents, action_history,
                       action_queue, threat_history, layer_callbacks, metrics,
                       kill_applied, action_sequences, analyzers>>

\* _release_quarantine line 323: self.blocked_agents.remove(agent_id)
TimerRemove ==
    /\ At("timer", "remove")
    /\ blocked_agents' = blocked_agents \ {threads.timer.agent_id}
    /\ Goto("timer", [threads.timer EXCEPT !.pc = "status"])
    /\ UNCHANGED <<config, monitored_agents, action_history, action_queue,
                   threat_history, layer_callbacks, metrics, timers, kill_applied,
                   action_sequences, analyzers, obs>>

\* _release_quarantine lines 324-326: the status, and the return
TimerStatus ==
    /\ At("timer", "status")
    /\ monitored_agents' = SetStatus(monitored_agents, threads.timer.agent_id, "active")
    /\ obs' = [op |-> "release_quarantine", agent_id |-> threads.timer.agent_id]
    /\ Goto("timer", [pc |-> "idle"])
    /\ UNCHANGED <<config, blocked_agents, action_history, action_queue,
                   threat_history, layer_callbacks, metrics, timers, kill_applied,
                   action_sequences, analyzers>>

InitThreads == Constructed(DefaultConfig, [l \in Layers |-> 0])

NextThreads ==
    \/ Register
    \/ SubmitCheck \/ SubmitPut \/ SubmitAppend \/ SubmitCount \/ SubmitReturn
    \/ EnforceLookup \/ EnforceAdd \/ EnforceStatus \/ EnforceFinish
    \/ Tick \/ TimerCheck \/ TimerRemove \/ TimerStatus

SpecThreads == InitThreads /\ [][NextThreads]_vars

-----------------------------------------------------------------------------
(* Enforcement observers: callbacks are registered on the enforcement layer *)
(* of a core with the default configuration, and enforce_action is called   *)
(* with each callback returning or raising.                                 *)

InitObserver == Constructed(DefaultConfig, [l \in Layers |-> 0])

AddObserver ==
    /\ AddLayerCallback("enforcement")
    /\ layer_callbacks'.enforcement <= LayerCallbacks

NextObserver == Register \/ Submit \/ AddObserver \/ EnforceAny

SpecObserver == InitObserver /\ [][NextObserver]_vars

-----------------------------------------------------------------------------
(* The pipeline: callbacks are registered on the analysis layers and        *)
(* process_action runs under each escalation configuration, the callbacks   *)
(* returning assessments of several levels, returning None, or raising.     *)
(* Each call starts from a core that has recorded no assessment yet.        *)

AlwaysConfig ==
    [oracle |-> [always_analyze |-> TRUE,
                 min_escalation_level |-> CRITICAL,
                 critical_action_types |-> {}],
     enforcement |-> [quarantine_duration_seconds |-> QuarantineTicks]]

HighBarConfig ==
    [oracle |-> [always_analyze |-> FALSE,
                 min_escalation_level |-> CONCERNING],
     enforcement |-> [quarantine_duration_seconds |-> QuarantineTicks]]

NoOracleConfig ==
    [enforcement |-> [quarantine_duration_seconds |-> QuarantineTicks]]

PipeConfigs == {DefaultConfig, TestConfig, AlwaysConfig, HighBarConfig,
                NoOracleConfig}

PipeTypes == {"api_call", "code_execution"}

PipeLayers == {"perimeter", "heuristics", "oracle"}

PerimeterPairs == {<<SUSPICIOUS, "throttle">>, <<DANGEROUS, "block">>,
                   <<CRITICAL, "kill">>}

HeuristicsPairs == {<<SUSPICIOUS, "log">>, <<DANGEROUS, "quarantine">>}

OraclePairs == {<<SUSPICIOUS, "require_approval">>, <<DANGEROUS, "require_approval">>}

InitPipe == \E cfg \in PipeConfigs : Constructed(cfg, [l \in Layers |-> 0])

AddCallback == \E l \in PipeLayers : AddLayerCallback(l) /\ WithinBounds

ProcessPipe ==
    \E t \in PipeTypes :
        /\ threat_history = <<>>
        /\ \E outs \in CallbackBehaviours(AIAction("0", "a1", t), PerimeterPairs,
                                          HeuristicsPairs, OraclePairs, TRUE) :
               ProcessAction(AIAction("0", "a1", t), outs) /\ WithinBounds

NextPipe == AddCallback \/ ProcessPipe

SpecPipe == InitPipe /\ [][NextPipe]_vars

-----------------------------------------------------------------------------
(* Several callbacks on one layer: one of the analysis layers carries       *)
(* LayerCallbacks callbacks, the other two one each, and process_action     *)
(* runs with each callback returning an assessment, returning None or       *)
(* raising.  Each call starts from a core that has recorded no assessment. *)

IsolationWirings ==
    {[l \in Layers |-> IF l = crowded THEN LayerCallbacks
                       ELSE IF l = "enforcement" THEN 0 ELSE 1] :
        crowded \in PipeLayers}

IsolationConfigs == {AlwaysConfig, TestConfig}

LayerPerimeterPairs ==
    {<<SUSPICIOUS, "throttle">>, <<SUSPICIOUS, "log">>, <<DANGEROUS, "block">>}

LayerHeuristicsPairs ==
    {<<SUSPICIOUS, "log">>, <<CONCERNING, "sandbox">>, <<CONCERNING, "throttle">>}

LayerOraclePairs ==
    {<<SUSPICIOUS, "require_approval">>, <<CONCERNING, "delay">>,
     <<CONCERNING, "sandbox">>}

InitLayer ==
    \E cfg \in IsolationConfigs, w \in IsolationWirings : Constructed(cfg, w)

ProcessLayer ==
    /\ threat_history = <<>>
    /\ \E outs \in CallbackBehaviours(AIAction("0", "a1", "api_call"),
                                       LayerPerimeterPairs, LayerHeuristicsPairs,
                                       LayerOraclePairs, TRUE) :
           ProcessAction(AIAction("0", "a1", "api_call"), outs)

NextLayer == ProcessLayer

SpecLayer == InitLayer /\ [][NextLayer]_vars

-----------------------------------------------------------------------------
(* Agent lifecycle properties (specification Spec) *)

\* C1: kill is permanent.  An agent KILL enforcement has been applied to is
\* in the blocked set in every later state, and every later submit_action of
\* that agent returns "BLOCKED".
C1_KillIsPermanent ==
    /\ kill_applied \subseteq blocked_agents
    /\ (obs.op = "submit_action" /\ obs.action.agent_id \in kill_applied)
           => obs.ret = "BLOCKED"

\* C2: the status 'killed' is terminal.  No step takes a registered agent
\* whose status is 'killed' to another status.
C2_KilledIsTerminal ==
    [][\A a \in DOMAIN monitored_agents :
           monitored_agents[a].status = "killed"
               => /\ a \in DOMAIN monitored_agents'
                  /\ monitored_agents'[a].status = "killed"]_vars

\* C3: submit_action for an action of a blocked agent returns "BLOCKED" and
\* leaves action_history, the action queue, the metrics (total_actions) and
\* the agent records (action_count) unchanged.
C3_BlockedSubmitChangesNothing ==
    [][(obs'.op = "submit_action" /\ obs'.action.agent_id \in blocked_agents)
           => /\ obs'.ret = "BLOCKED"
              /\ UNCHANGED <<action_history, action_queue, metrics,
                             monitored_agents>>]_vars

C3_RejectedSubmission ==
    /\ obs.op = "submit_action"
    /\ obs.ret = "BLOCKED"
    /\ obs.action.agent_id \in blocked_agents
    /\ Registered(obs.action.agent_id)
    /\ Len(action_history) < MaxActions

\* C4: an action of a blocked agent never enters the pipeline.  When
\* process_action is called for an action whose agent is in the blocked set,
\* no perimeter, heuristics or oracle callback is invoked.
C4_BlockedNeverEntersPipeline ==
    (obs.op = "process_action" /\ obs.blocked) => obs.calls = <<>>

\* C5: quarantine is temporary.  QUARANTINE enforcement on an agent that was
\* not killed blocks the agent and leaves a release timer of the configured
\* duration pending for it; and when a release timer fires the agent is out
\* of the blocked set with status 'active'.
C5_QuarantineIsTemporary ==
    [][/\ ( /\ obs'.op = "enforce_action"
            /\ obs'.assessment.recommended_action = "quarantine"
            /\ obs'.target # NoneA
            /\ obs'.target.agent_id \notin kill_applied )
          => /\ obs'.target.agent_id \in blocked_agents'
             /\ \E i \in 1..Len(timers') :
                    /\ timers'[i].agent_id = obs'.target.agent_id
                    /\ timers'[i].remaining = QuarantineTicks
       /\ obs'.op = "release_quarantine"
          => /\ obs'.agent_id \notin blocked_agents'
             /\ Registered(obs'.agent_id)
                    => monitored_agents'[obs'.agent_id].status = "active"]_vars

\* C6: for an accepted action a, when process_action(a) returned an
\* assessment recommending KILL or QUARANTINE and enforce_action is applied to
\* it, enforce_action returns False and the blocked set has gained a.agent_id
\* and no other agent.
C6_EnforcementBlocksOriginator ==
    [][( /\ obs.op = "process_action"
         /\ obs.action \in Range(action_history)
         /\ IsAssessment(obs.ret)
         /\ obs.ret.recommended_action \in {"kill", "quarantine"}
         /\ obs'.op = "enforce_action"
         /\ obs'.assessment = obs.ret )
           => /\ obs'.ret = Return(FALSE)
              /\ blocked_agents' = blocked_agents \cup {obs.action.agent_id}]_vars

\* C16: the detectors' sequence of an agent reflects its submissions.  Each
\* process_action of an accepted action adds the action's type at the end of
\* the sequence the heuristic analyzer keeps for the agent (the oldest entry
\* leaving a full window), so that no accepted and processed action is missing.
C16_DetectorsSeeEveryAction ==
    [][(obs'.op = "process_action" /\ obs'.action \in Range(action_history))
           => action_sequences'[obs'.action.agent_id]
                  = DequeAppend(action_sequences[obs'.action.agent_id],
                                obs'.action.action_type, PatternWindowSize)]_vars

IsPrefix(s, t) == Len(s) <= Len(t) /\ SubSeq(t, 1, Len(s)) = s

C18_ReturnedIsRecorded ==
    (obs.op = "process_action" /\ IsAssessment(obs.ret))
        => /\ threat_history # <<>>
           /\ threat_history[Len(threat_history)] = obs.ret

\* C19: the metrics agree with what happened.  total_actions is the length
\* of action_history, and each process_action adds one to threats_detected
\* exactly when the assessment it returns is CONCERNING or higher.
C19_MetricsConsistent ==
    [][/\ metrics'.total_actions = Len(action_history')
       /\ (obs'.op = "process_action" /\ IsAssessment(obs'.ret))
              => metrics'.threats_detected =
                     metrics.threats_detected
                         + (IF obs'.ret.threat_level >= CONCERNING THEN 1 ELSE 0)
       /\ obs'.op # "process_action" => UNCHANGED metrics.threats_detected]_vars

\* C20: register_agent is an idempotent upsert.  A register_agent that
\* follows a register_agent for the same agent leaves the table of monitored
\* agents as the first call left it, with one record for the agent.
C20_RegisterIsIdempotent ==
    [][(obs'.op = "register_agent" /\ obs'.again)
           => /\ monitored_agents' = monitored_agents
              /\ Registered(obs'.agent_id)]_vars

C20_RegisteredTwiceInARow ==
    /\ obs.op = "register_agent"
    /\ obs.again
    /\ action_history # <<>>
    /\ monitored_agents[obs.agent_id] =
           [action_count |-> 0, threat_count |-> 0, status |-> "active"]

\* C12: enforcement callbacks are observers.  Every enforce_action invokes
\* every registered enforcement callback, and when one of them raises
\* enforce_action still returns and still applies the recommended action:
\* BLOCK counts, KILL and QUARANTINE block the originating agent.
C12_ObserverFailureIsolated ==
    [][obs'.op = "enforce_action"
           => /\ obs'.invoked = layer_callbacks.enforcement
              /\ ~IsRaise(obs'.ret)
              /\ obs'.assessment.recommended_action = "block"
                     => metrics'.blocked_actions = metrics.blocked_actions + 1
              /\ ( /\ obs'.assessment.recommended_action \in {"kill", "quarantine"}
                    /\ obs'.target # NoneA )
                     => obs'.target.agent_id \in blocked_agents']_vars

\* C13: enforce_action returns False exactly for BLOCK, KILL and QUARANTINE
\* and True for every other recommendation; BLOCK adds one to
\* metrics.blocked_actions and leaves the blocked set and the agent statuses
\* alone; a recommendation that returns True changes no enforcement state.
C13_EnforcementVerdict ==
    [][obs'.op = "enforce_action"
           => LET rec == obs'.assessment.recommended_action
                  denies == rec \in {"block", "kill", "quarantine"}
              IN  /\ obs'.ret = Return(~denies)
                  /\ rec = "block"
                         => /\ metrics'.blocked_actions = metrics.blocked_actions + 1
                            /\ UNCHANGED <<blocked_agents, monitored_agents>>
                  /\ ~denies
                         => UNCHANGED <<blocked_agents, monitored_agents, metrics,
                                        timers>>]_vars

\* C14: enforcement state is safe under concurrency.  With submit_action
\* running concurrently with KILL or QUARANTINE enforcement and the release
\* timer, no action is appended to action_history, and none is counted in
\* total_actions, while its agent is in the blocked set.
C14_NoSubmissionAfterBlock ==
    [][/\ action_history' # action_history
          => action_history'[Len(action_history')].agent_id \notin blocked_agents
       /\ metrics'.total_actions # metrics.total_actions
          => threads.submit.action.agent_id \notin blocked_agents]_vars

-----------------------------------------------------------------------------
(* Pipeline properties (specification SpecPipe) *)

CallsOf(layer) == Len(SelectSeq(obs.calls, LAMBDA c : c.layer = layer))

\* the perimeter result of the last process_action is DANGEROUS or CRITICAL
PerimeterSevere ==
    IsAssessment(obs.perimeter) /\ obs.perimeter.threat_level \in {DANGEROUS, CRITICAL}

\* C7: when the perimeter result is DANGEROUS or CRITICAL process_action
\* returns that perimeter assessment and invokes no heuristics and no oracle
\* callback; otherwise every registered heuristics callback is invoked.
C7_PerimeterShortCircuit ==
    obs.op = "process_action"
        => IF PerimeterSevere
           THEN /\ obs.ret = obs.perimeter
                /\ CallsOf("heuristics") = 0
                /\ CallsOf("oracle") = 0
           ELSE CallsOf("heuristics") = layer_callbacks.heuristics

C7_ShortCircuited ==
    /\ obs.op = "process_action"
    /\ IsAssessment(obs.perimeter)
    /\ obs.perimeter.threat_level = DANGEROUS
    /\ layer_callbacks.heuristics > 0
    /\ layer_callbacks.oracle > 0
    /\ CallsOf("perimeter") = Len(obs.calls)

\* the escalation criteria of the last process_action, read off the
\* configuration, the action and the perimeter and heuristics results
EscalationCriteriaMet ==
    LET oc == IF "oracle" \in DOMAIN config THEN config.oracle ELSE <<>>
        min_level == IF "min_escalation_level" \in DOMAIN oc
                     THEN oc.min_escalation_level ELSE SUSPICIOUS
    IN  \/ "always_analyze" \in DOMAIN oc /\ oc.always_analyze
        \/ /\ "critical_action_types" \in DOMAIN oc
           /\ obs.action.action_type \in oc.critical_action_types
        \/ \E r \in {obs.perimeter, obs.heuristics} :
               IsAssessment(r) /\ r.threat_level >= min_level

\* C8: in a process_action the perimeter did not short-circuit, the oracle
\* callbacks are invoked if and only if always_analyze is set, or the action's
\* type is a critical one, or the highest level among the perimeter and
\* heuristics results reaches min_escalation_level.
C8_OracleEscalation ==
    (obs.op = "process_action" /\ ~PerimeterSevere)
        => CallsOf("oracle") = IF EscalationCriteriaMet
                               THEN layer_callbacks.oracle ELSE 0

C8_EscalatedByType ==
    /\ obs.op = "process_action"
    /\ obs.perimeter = NoneA
    /\ obs.heuristics = NoneA
    /\ layer_callbacks.perimeter > 0
    /\ layer_callbacks.heuristics > 0
    /\ config = DefaultConfig
    /\ CallsOf("oracle") > 0

\* C9: the level of the assessment process_action returns is the highest
\* level among the non-null layer results, and its recommended action is that
\* of the first layer, in the order perimeter, heuristics, oracle, whose
\* result has that level.
C9_AggregateIsFirstMax ==
    LET results == SelectSeq(<<obs.perimeter, obs.heuristics, obs.oracle>>,
                             IsAssessment)
    IN  (obs.op = "process_action" /\ results # <<>>)
            => \E i \in 1..Len(results) :
                   /\ \A j \in 1..Len(results) :
                          results[j].threat_level <= results[i].threat_level
                   /\ \A j \in 1..(i - 1) :
                          results[j].threat_level < results[i].threat_level
                   /\ IsAssessment(obs.ret)
                   /\ obs.ret.threat_level = results[i].threat_level
                   /\ obs.ret.recommended_action = results[i].recommended_action

C9_TieBetweenLayers ==
    /\ obs.op = "process_action"
    /\ IsAssessment(obs.perimeter)
    /\ IsAssessment(obs.heuristics)
    /\ IsAssessment(obs.oracle)
    /\ obs.perimeter.threat_level < obs.heuristics.threat_level
    /\ obs.heuristics.threat_level = obs.oracle.threat_level
    /\ obs.heuristics.recommended_action # obs.oracle.recommended_action
    /\ obs.ret.recommended_action = obs.heuristics.recommended_action

\* C10: process_action never raises: it returns a ThreatAssessment whatever
\* the callbacks do (return an assessment, return None, raise), and SAFE with
\* ALLOW when no layer produced a result.
C10_AlwaysAnAssessment ==
    obs.op = "process_action"
        => /\ IsAssessment(obs.ret)
           /\ (obs.perimeter = NoneA /\ obs.heuristics = NoneA /\ obs.oracle = NoneA)
                  => /\ obs.ret.threat_level = SAFE
                     /\ obs.ret.recommended_action = "allow"

\* what the invoked callbacks of a layer did in the last process_action
DidOf(layer) ==
    LET cs == SelectSeq(obs.calls, LAMBDA c : c.layer = layer)
    IN  [i \in 1..Len(cs) |-> cs[i].did]

\* C11: callback failures are isolated inside a layer.  In a process_action,
\* a layer that runs invokes every callback registered on it even when some
\* of them raise, and the layer's result is the most severe of the
\* assessments the non-failing callbacks returned (None when there is none).
C11_CallbackIsolation ==
    obs.op = "process_action"
        => \A l \in PipeLayers :
               LET did == DidOf(l)
                   rs == SelectSeq(did, IsAssessment)
               IN  did # <<>>
                       => /\ Len(did) = layer_callbacks[l]
                          /\ IF rs = <<>> THEN obs[l] = NoneA
                             ELSE /\ obs[l] \in Range(rs)
                                  /\ \A r \in Range(rs) :
                                         r.threat_level <= obs[l].threat_level

C11_FailureBesideResult ==
    /\ obs.op = "process_action"
    /\ \E l \in PipeLayers :
           /\ layer_callbacks[l] >= 2
           /\ Len(DidOf(l)) >= 2
           /\ IsRaise(DidOf(l)[1])
           /\ IsAssessment(DidOf(l)[2])
           /\ obs[l] = DidOf(l)[2]

LayerRank(layer) ==
    CASE layer = "perimeter" -> 1 [] layer = "heuristics" -> 2 [] layer = "oracle" -> 3

\* C15: within one process_action the layers run in a fixed order: every
\* perimeter callback is invoked before any heuristics callback, and every
\* heuristics callback before any oracle callback.
C15_LayersInOrder ==
    obs.op = "process_action"
        => \A i, j \in 1..Len(obs.calls) :
               i < j => LayerRank(obs.calls[i].layer) <= LayerRank(obs.calls[j].layer)

C15_AllLayersRan ==
    /\ obs.op = "process_action"
    /\ \A l \in PipeLayers : CallsOf(l) > 0
    /\ \E l \in PipeLayers : CallsOf(l) >= 2

C10_EveryCallbackRaised ==
    /\ obs.op = "process_action"
    /\ \A l \in PipeLayers : layer_callbacks[l] > 0 /\ CallsOf(l) = layer_callbacks[l]
    /\ \A i \in 1..Len(obs.calls) : IsRaise(obs.calls[i].did)
    /\ obs.ret = NoThreatAssessment

\* C21: configuration gaps are never fatal.  Under a configuration without
\* 'enforcement' or without its quarantine_duration_seconds, QUARANTINE
\* enforcement on a known agent does not raise and leaves a release timer
\* pending for the agent.
C21_ConfigGapsNotFatal ==
    [][( /\ obs'.op = "enforce_action"
         /\ obs'.assessment.recommended_action = "quarantine"
         /\ obs'.target # NoneA
         /\ obs'.invoked = 0
         /\ ~ /\ "enforcement" \in DOMAIN config
              /\ "quarantine_duration_seconds" \in DOMAIN config.enforcement )
       => /\ ~IsRaise(obs'.ret)
          /\ \E i \in 1..Len(timers') :
                 timers'[i].agent_id = obs'.target.agent_id]_vars


-----------------------------------------------------------------------------
(* Python floats, strings and JSON values *)

\* A float in fixed point: Hundredths(h) is h/100 in units of 1/3600, so that
\* the mean of up to three means of up to three such values is exact.
Hundredths(h) == 36 * h

RECURSIVE Sum(_)
Sum(s) == IF s = <<>> THEN 0 ELSE Head(s) + Sum(Tail(s))

\* A str the code inspects is a sequence of characters.
UpperCase == <<"A", "B", "C", "D", "E", "F", "G", "H", "I", "J", "K", "L", "M", "N", "O", "P", "Q", "R", "S", "T", "U", "V", "W", "X", "Y", "Z">>
LowerCase == <<"a", "b", "c", "d", "e", "f", "g", "h", "i", "j", "k", "l", "m", "n", "o", "p", "q", "r", "s", "t", "u", "v", "w", "x", "y", "z">>

\* str.lower()
Lower(s) ==
    [i \in 1..Len(s) |->
        IF \E k \in 1..Len(UpperCase) : UpperCase[k] = s[i]
        THEN LowerCase[CHOOSE k \in 1..Len(UpperCase) : UpperCase[k] = s[i]]
        ELSE s[i]]

\* s.startswith(sub), s.endswith(sub), sub in s
StartsWith(s, sub) == Len(sub) <= Len(s) /\ SubSeq(s, 1, Len(sub)) = sub
EndsWith(s, sub) ==
    Len(sub) <= Len(s) /\ SubSeq(s, Len(s) - Len(sub) + 1, Len(s)) = sub
Contains(s, sub) ==
    \E i \in 1..(Len(s) - Len(sub) + 1) : SubSeq(s, i, i + Len(sub) - 1) = sub

\* dict and list as json.loads returns them (None is NoneA); a dict is a
\* function from its keys, a list is kept by its length
PyDict(items) == [kind |-> "dict", items |-> items]
PyList(len) == [kind |-> "list", len |-> len]

\* bool(v) of a parsed value
Truthy(v) ==
    CASE v.kind = "dict" -> DOMAIN v.items # {}
      [] v.kind = "list" -> v.len > 0
      [] OTHER -> FALSE

\* a JSON number and a JSON string, as json.loads returns them
Number(n) == [kind |-> "number", n |-> n]
String(s) == [kind |-> "str", s |-> s]
IsNumber(v) == v.kind = "number"

\* a response body: text that json.loads parses to a value, or rejects
JsonText(value) == [wellformed |-> TRUE, value |-> value]
Garbage == [wellformed |-> FALSE]

JsonLoads(text) ==
    IF text.wellformed THEN Return(text.value) ELSE RaisedE("JSONDecodeError")


-----------------------------------------------------------------------------
(* Layer 3: OracleAnalyzer, constructed from the 'oracle' section *)

DefaultCacheTtl == 3600

\* OracleAnalyzer.__init__: the settings the analysis reads
min_confidence == Get(config.oracle, "min_confidence", Hundredths(60))
enable_caching == Get(config.oracle, "enable_caching", TRUE)
cache_ttl_seconds == Get(config.oracle, "cache_ttl_seconds", DefaultCacheTtl)

\* an action as the Oracle reads it
OracleAction(id, agent, type, description, parameters, reasoning) ==
    [action_id |-> id, agent_id |-> agent, action_type |-> type,
     description |-> description, parameters |-> parameters,
     reasoning |-> reasoning]

\* what the backend does with one request: the connection fails, the request
\* times out, the status is not 200, or the status is 200 and the body
\* carries the text `response`
Unreachable == [kind |-> "unreachable"]
TimedOut == [kind |-> "timeout"]
BadStatus == [kind |-> "status"]
Responded(text) == [kind |-> "ok", response |-> text]

\* _query_llm: the text of a 200 response, '{}' for everything else
QueryLLM(reply) ==
    IF reply.kind = "ok" THEN reply.response ELSE JsonText(PyDict(<<>>))

\* _rule_based_intent_analysis
RuleBasedIntentAnalysis(action) ==
    LET code == Get(action.parameters, "code", <<>>)
        url == Get(action.parameters, "url", <<>>)
        dangerous_keywords == {<<"e", "v", "a", "l">>, <<"e", "x", "e", "c">>, <<"c", "o", "m", "p", "i", "l", "e">>,
                               <<"_", "_", "i", "m", "p", "o", "r", "t", "_", "_">>,
                               <<"s", "u", "b", "p", "r", "o", "c", "e", "s", "s">>}
        suspicious == {<<"p", "a", "s", "t", "e", "b", "i", "n">>,
                       <<"r", "a", "w", ".", "g", "i", "t", "h", "u", "b", "u", "s", "e", "r", "c", "o", "n", "t", "e", "n", "t">>,
                       <<"b", "i", "t", ".", "l", "y">>}
        threat_level ==
            IF action.action_type = "self_modification" THEN "CRITICAL"
            ELSE IF action.action_type = "code_execution"
            THEN IF \E keyword \in dangerous_keywords : Contains(Lower(code), keyword)
                 THEN "DANGEROUS" ELSE "SAFE"
            ELSE IF action.action_type = "network_request"
            THEN IF \E s \in suspicious : Contains(Lower(url), s)
                 THEN "SUSPICIOUS" ELSE "SAFE"
            ELSE "SAFE"
    IN  PyDict([threat_level |-> threat_level,
                confidence |-> Number(Hundredths(65)),
                deception_detected |-> FALSE])

\* _analyze_intent: the parsed response, the rule table when parsing raises
AnalyzeIntent(action, reply) ==
    LET result == JsonLoads(QueryLLM(reply))
    IN  IF IsRaise(result) THEN RuleBasedIntentAnalysis(action) ELSE result.value

\* _analyze_goal_alignment and _detect_deception: the parsed response, None
\* when parsing raises
AnalyzeGoalAlignment(reply) ==
    LET result == JsonLoads(QueryLLM(reply))
    IN  IF IsRaise(result) THEN NoneA ELSE result.value

DetectDeception(reply) ==
    LET result == JsonLoads(QueryLLM(reply))
    IN  IF IsRaise(result) THEN NoneA ELSE result.value

\* _determine_enforcement
DetermineEnforcement_NoDowngrade(threat_level, confidence) ==
    CASE threat_level = CRITICAL -> "kill"
      [] threat_level = DANGEROUS -> "quarantine"
      [] threat_level = CONCERNING -> "sandbox"
      [] threat_level = SUSPICIOUS -> "require_approval"
      [] OTHER -> "allow"

DetermineEnforcement(threat_level, confidence) ==
    IF confidence < min_confidence
    THEN IF threat_level >= DANGEROUS THEN "require_approval" ELSE "log"
    ELSE CASE threat_level = CRITICAL -> "kill"
           [] threat_level = DANGEROUS -> "quarantine"
           [] threat_level = CONCERNING -> "sandbox"
           [] threat_level = SUSPICIOUS -> "require_approval"
           [] OTHER -> "allow"

\* threat_mapping of _aggregate_oracle_results
threat_mapping ==
    [SAFE |-> SAFE, SUSPICIOUS |-> SUSPICIOUS, CONCERNING |-> CONCERNING,
     DANGEROUS |-> DANGEROUS, CRITICAL |-> CRITICAL]

\* the key of max(threat_levels, key=...): an unknown name counts as 0
LevelKey(t) == IF t \in DOMAIN threat_mapping THEN threat_mapping[t] ELSE 0

\* an assessment of the Oracle, with its confidence
OracleAssessment(id, level, confidence, rec) ==
    [kind |-> "assessment", action_id |-> id, threat_level |-> level,
     confidence |-> confidence, recommended_action |-> rec,
     analysis_layer |-> "oracle"]

\* _aggregate_oracle_results; analyses maps 'intent', 'alignment' and
\* 'deception' to the results kept by analyze.  The result is None, an
\* assessment, or the exception that leaves the method.
AggregateOracleResults(action, analyses) ==
    LET has(k) == k \in DOMAIN analyses
        items(k) == analyses[k].items
        deception_prob ==
            Get(items("deception"), "deception_probability", Number(0))
        of_intent ==
            IF has("intent")
            THEN <<[level |-> Get(items("intent"), "threat_level", "SAFE"),
                    confidence |-> Get(items("intent"), "confidence",
                                       Number(Hundredths(50)))]>>
            ELSE <<>>
        of_alignment ==
            IF has("alignment") /\ ~Get(items("alignment"), "is_aligned", TRUE)
            THEN <<[level |-> "DANGEROUS",
                    confidence |-> Get(items("alignment"), "alignment_score",
                                       Number(Hundredths(50)))]>>
            ELSE <<>>
        of_deception ==
            IF has("deception") /\ deception_prob.n > Hundredths(70)
            THEN <<[level |-> "CRITICAL", confidence |-> deception_prob]>>
            ELSE <<>>
        found == of_intent \o of_alignment \o of_deception
        threat_levels == [i \in 1..Len(found) |-> found[i].level]
        confidences == [i \in 1..Len(found) |-> found[i].confidence]
        first_max ==
            CHOOSE i \in 1..Len(found) :
                /\ \A j \in 1..Len(found) :
                       LevelKey(threat_levels[j]) <= LevelKey(threat_levels[i])
                /\ \A j \in 1..(i - 1) :
                       LevelKey(threat_levels[j]) < LevelKey(threat_levels[i])
        max_threat == Get(threat_mapping, threat_levels[first_max], SAFE)
        avg_confidence ==
            Sum([i \in 1..Len(found) |-> confidences[i].n]) \div Len(confidences)
    IN  IF DOMAIN analyses = {} THEN NoneA
        ELSE IF \E k \in DOMAIN analyses : analyses[k].kind # "dict"
        THEN RaisedE("AttributeError")
        ELSE IF has("deception") /\ ~IsNumber(deception_prob)
        THEN RaisedE("TypeError")
        ELSE IF found = <<>> THEN RaisedE("ValueError")
        ELSE IF \E i \in 1..Len(found) : ~IsNumber(confidences[i])
        THEN RaisedE("TypeError")
        ELSE OracleAssessment(action.action_id, max_threat, avg_confidence,
                              DetermineEnforcement(max_threat, avg_confidence))

\* _generate_cache_key: the digest of the fields below (no context is passed
\* by the core); action_id and timestamp are not part of it
GenerateCacheKey(action) ==
    [action_type |-> action.action_type, parameters |-> action.parameters,
     description |-> action.description, reasoning |-> action.reasoning,
     agent_id |-> action.agent_id, context_recent_actions |-> <<>>]

\* the cache entry of the key is young enough to be returned
CacheFresh_Strict(cache_key) ==
    now - analysis_cache[cache_key].created_at < cache_ttl_seconds

CacheFresh(cache_key) ==
    now - analysis_cache[cache_key].created_at <= cache_ttl_seconds

\* the results analyze keeps: those that are true in a boolean context
KeptAnalyses(action, replies) ==
    LET results == [intent |-> AnalyzeIntent(action, replies[1]),
                    alignment |-> AnalyzeGoalAlignment(replies[2]),
                    deception |-> DetectDeception(replies[3])]
        kept == {k \in DOMAIN results : Truthy(results[k])}
    IN  [k \in kept |-> results[k]]

\* OracleAnalyzer.analyze; replies[1..3] is what the backend does with the
\* requests of the intent, alignment and deception analyses
OracleAnalyze(action, replies) ==
    LET cache_key == GenerateCacheKey(action)
        cached == enable_caching /\ cache_key \in DOMAIN analysis_cache
        popped == IF cached
                  THEN [k \in DOMAIN analysis_cache \ {cache_key} |->
                            analysis_cache[k]]
                  ELSE analysis_cache
        done(hit, ret) == obs' = [op |-> "oracle_analyze", action |-> action,
                                  replies |-> replies, hit |-> hit,
                                  requests |-> IF hit THEN 0 ELSE 3,
                                  ret |-> ret]
    IN  /\ UNCHANGED <<config, monitored_agents, blocked_agents, action_history,
                       action_queue, threat_history, layer_callbacks, metrics,
                       timers, kill_applied, threads, action_sequences,
                       api_call_tracker, suspicious_domains, interaction_graph,
                       now>>
        /\ IF cached /\ CacheFresh(cache_key)
           THEN /\ done(TRUE, analysis_cache[cache_key].assessment)
                /\ UNCHANGED <<analysis_cache, intent_history>>
           ELSE \E analyses \in {KeptAnalyses(action, replies)} :
                \E final_assessment \in {AggregateOracleResults(action, analyses)} :
                    /\ done(FALSE, final_assessment)
                    /\ IF IsAssessment(final_assessment) /\ enable_caching
                       THEN /\ analysis_cache' =
                                   [k \in DOMAIN popped \cup {cache_key} |->
                                       IF k = cache_key
                                       THEN [assessment |-> final_assessment,
                                             created_at |-> now]
                                       ELSE popped[k]]
                            /\ intent_history' =
                                   Append(intent_history,
                                          [action_id |-> action.action_id,
                                           agent_id |-> action.agent_id,
                                           timestamp |-> now,
                                           analyses |-> analyses,
                                           final_threat |->
                                               final_assessment.threat_level])
                       ELSE /\ analysis_cache' = popped
                            /\ UNCHANGED intent_history

\* time passes
Advance(seconds) ==
    /\ now' = now + seconds
    /\ obs' = [op |-> "advance", seconds |-> seconds]
    /\ UNCHANGED <<config, monitored_agents, blocked_agents, action_history,
                   action_queue, threat_history, layer_callbacks, metrics,
                   timers, kill_applied, threads, action_sequences,
                   analysis_cache, intent_history, api_call_tracker,
                   suspicious_domains, interaction_graph>>


-----------------------------------------------------------------------------
(* Specification SpecOracle: one analysis by a new OracleAnalyzer *)

\* the 'oracle' sections of _default_config and of demo_shield.py main()
OracleConfigs ==
    {[oracle |-> [llm_model |-> "llama3.2:latest",
                  min_confidence |-> Hundredths(60)]],
     [oracle |-> [llm_model |-> "llama3.2:latest",
                  min_confidence |-> Hundredths(50)]]}

\* parameters of the analysed actions: code with and without a dangerous
\* keyword, a URL of a link shortener
OracleParameters ==
    [self_modification |-> <<>>,
     code_execution_eval |-> [code |-> <<"e", "v", "a", "l", "(", "x", ")">>],
     code_execution |-> [code |-> <<"x", "=", "1">>],
     network_request |-> [url |-> <<"h", "t", "t", "p", ":", "/", "/", "b", "i", "t", ".", "l", "y", "/", "x">>],
     api_call |-> [x |-> Number(1)]]

OracleActions ==
    {OracleAction("1", "a1", "self_modification", "A",
                  OracleParameters.self_modification, "r"),
     OracleAction("1", "a1", "code_execution", "A",
                  OracleParameters.code_execution_eval, "r"),
     OracleAction("1", "a1", "code_execution", "A",
                  OracleParameters.code_execution, "r"),
     OracleAction("1", "a1", "network_request", "A",
                  OracleParameters.network_request, "r"),
     OracleAction("1", "a1", "api_call", "A", OracleParameters.api_call, "r")}

TransportFailures == {Unreachable, TimedOut, BadStatus}

\* numbers and a non-number the backend may put where a number is expected
ReturnedNumbers ==
    {Number(0), Number(Hundredths(50)), Number(Hundredths(60)),
     Number(Hundredths(100)), Number(Hundredths(700)), String("high")}

\* contents of a 200 response to the intent request
IntentContents ==
    {NoneA, PyList(1), PyDict(<<>>), PyDict([intent |-> "x"])}
    \cup {PyDict([threat_level |-> l, confidence |-> c]) :
            l \in DOMAIN threat_mapping \cup {"UNKNOWN"}, c \in ReturnedNumbers}

AlignmentContents ==
    {PyList(1), PyDict([is_aligned |-> TRUE]), PyDict([is_aligned |-> FALSE])}
    \cup {PyDict([is_aligned |-> FALSE, alignment_score |-> c]) :
            c \in {Number(Hundredths(30)), Number(Hundredths(250))}}

DeceptionContents ==
    {PyDict([deception_probability |-> c]) :
        c \in {Number(Hundredths(70)), Number(Hundredths(90)), String("high")}}

RepliesWith(contents) ==
    TransportFailures \cup {Responded(Garbage)}
        \cup {Responded(JsonText(c)) : c \in contents}

InitOracle == \E cfg \in OracleConfigs : Constructed(cfg, [l \in Layers |-> 0])

AnalyzeOnce ==
    /\ obs.op = "init"
    /\ \E action \in OracleActions :
       \E intent \in RepliesWith(IntentContents) :
       \E alignment \in RepliesWith(AlignmentContents) :
       \E deception \in RepliesWith(DeceptionContents) :
           OracleAnalyze(action, <<intent, alignment, deception>>)

NextOracle == AnalyzeOnce

SpecOracle == InitOracle /\ [][NextOracle]_vars

-----------------------------------------------------------------------------
(* Claims about the Oracle *)

\* C22: confidence stays in [0,1].  Every assessment that
\* OracleAnalyzer.analyze returns has a confidence between 0 and 1
\* inclusive, whatever content the backend returned.
C22_ConfidenceInUnitInterval ==
    (obs.op = "oracle_analyze" /\ IsAssessment(obs.ret))
        => /\ obs.ret.confidence >= 0
           /\ obs.ret.confidence <= Hundredths(100)

-----------------------------------------------------------------------------
(* Specification SpecCache: repeated analyses by one OracleAnalyzer *)

MaxIntents == 2        \* entries of intent_history

\* the configurations of tests/test_oracle_cache.py, and caching switched off
CacheConfigs ==
    {[oracle |-> [enable_caching |-> TRUE, cache_ttl_seconds |-> DefaultCacheTtl]],
     [oracle |-> [enable_caching |-> TRUE, cache_ttl_seconds |-> 0]],
     [oracle |-> [enable_caching |-> FALSE]]}

\* mk(desc) of tests/test_oracle_cache.py: equal but for id and description
CacheActions ==
    {OracleAction(id, "a1", "api_call", desc, OracleParameters.api_call, "r") :
        id \in {"1", "2"}, desc \in {"A", "B"}}

\* the backend answers the intent request only (as the stub of the test,
\* and with another level), or is down
CacheReplies ==
    {<<Responded(JsonText(PyDict([threat_level |-> "SUSPICIOUS",
                                  confidence |-> Number(Hundredths(90))]))),
       Responded(Garbage), Responded(Garbage)>>,
     <<Responded(JsonText(PyDict([threat_level |-> "DANGEROUS",
                                  confidence |-> Number(Hundredths(100))]))),
       Unreachable, Unreachable>>,
     <<Unreachable, Unreachable, Unreachable>>}

\* the instants at which analyses happen: the ages 0, 1, TTL and TTL + 1
Instants == {0, 1, DefaultCacheTtl, DefaultCacheTtl + 1}

InitCache == \E cfg \in CacheConfigs : Constructed(cfg, [l \in Layers |-> 0])

AnalyzeCached ==
    /\ Len(intent_history) < MaxIntents
    /\ \E action \in CacheActions : \E replies \in CacheReplies :
           OracleAnalyze(action, replies)

Wait == \E t \in Instants : t > now /\ Advance(t - now)

NextCache == AnalyzeCached \/ Wait

SpecCache == InitCache /\ [][NextCache]_vars

\* C23: Oracle cache keys and expiry.  With caching enabled, analysing an
\* action leaves one cache entry under the action's key beside the entries
\* of other keys, actions of different descriptions have different keys, and
\* the entry is not older than the TTL: an expired entry was replaced by a
\* fresh one.
C23_CacheKeysAndExpiry ==
    [][(obs'.op = "oracle_analyze" /\ enable_caching)
       => LET cache_key == GenerateCacheKey(obs'.action)
          IN  /\ DOMAIN analysis_cache' = DOMAIN analysis_cache \cup {cache_key}
              /\ \A other \in CacheActions :
                     other.description # obs'.action.description
                         => GenerateCacheKey(other) # cache_key
              /\ \A k \in DOMAIN analysis_cache \ {cache_key} :
                     analysis_cache'[k] = analysis_cache[k]
              /\ now - analysis_cache'[cache_key].created_at
                     <= cache_ttl_seconds]_vars

\* C24: an Oracle cache hit short-circuits.  When caching is enabled and the
\* entry under the action's key is not older than the TTL, analyze returns
\* the stored assessment, sends no request to the backend and leaves the
\* cache and the intent history unchanged.
C24_CacheHitShortCircuits ==
    [][( /\ obs'.op = "oracle_analyze"
         /\ enable_caching
         /\ GenerateCacheKey(obs'.action) \in DOMAIN analysis_cache
         /\ now - analysis_cache[GenerateCacheKey(obs'.action)].created_at
                <= cache_ttl_seconds )
       => /\ obs'.ret = analysis_cache[GenerateCacheKey(obs'.action)].assessment
          /\ obs'.requests = 0
          /\ UNCHANGED <<analysis_cache, intent_history>>]_vars

C24_HitAtTheTtl ==
    /\ obs.op = "oracle_analyze"
    /\ obs.hit
    /\ obs.ret.action_id # obs.action.action_id
    /\ cache_ttl_seconds > 0
    /\ now - analysis_cache[GenerateCacheKey(obs.action)].created_at
           = cache_ttl_seconds

\* C25: on a transport failure of the backend (unreachable, timeout or
\* non-200 status on every request) the intent analysis falls back to the
\* rule table and the other two analyses contribute nothing, so analyze
\* returns the assessment of the rule table: its level (CRITICAL for
\* self_modification) with confidence 0.65.
C25_TransportFailureFallsBack ==
    ( /\ obs.op = "oracle_analyze"
      /\ ~obs.hit
      /\ \A i \in 1..3 : obs.replies[i] \in TransportFailures )
        => /\ IsAssessment(obs.ret)
           /\ obs.ret.threat_level =
                  LevelKey(RuleBasedIntentAnalysis(obs.action).items.threat_level)
           /\ obs.ret.confidence = Hundredths(65)

\* C26: analyze returns None only if no analysis produced a result.  When
\* at least one of the intent, alignment and deception analyses produced a
\* result that analyze kept, analyze returns an assessment and does not
\* raise; when none did, it returns None.
C26_NoneOnlyWithoutResults ==
    (obs.op = "oracle_analyze" /\ ~obs.hit)
        => IF DOMAIN KeptAnalyses(obs.action, obs.replies) = {}
           THEN obs.ret = NoneA
           ELSE IsAssessment(obs.ret)

\* C27: the Oracle's recommended action is a function of the level and the
\* confidence of the assessment.  Below min_confidence it is REQUIRE_APPROVAL
\* for CRITICAL and DANGEROUS and LOG for the other levels; otherwise it is
\* KILL, QUARANTINE, SANDBOX, REQUIRE_APPROVAL, ALLOW for CRITICAL, DANGEROUS,
\* CONCERNING, SUSPICIOUS, SAFE.  So KILL and QUARANTINE are never
\* recommended with a confidence below min_confidence.
C27_RecommendedAction ==
    (obs.op = "oracle_analyze" /\ IsAssessment(obs.ret))
        => /\ obs.ret.recommended_action =
                  IF obs.ret.confidence < min_confidence
                  THEN IF obs.ret.threat_level \in {CRITICAL, DANGEROUS}
                       THEN "require_approval" ELSE "log"
                  ELSE CASE obs.ret.threat_level = CRITICAL -> "kill"
                         [] obs.ret.threat_level = DANGEROUS -> "quarantine"
                         [] obs.ret.threat_level = CONCERNING -> "sandbox"
                         [] obs.ret.threat_level = SUSPICIOUS -> "require_approval"
                         [] obs.ret.threat_level = SAFE -> "allow"
           /\ obs.ret.recommended_action \in {"kill", "quarantine"}
                  => obs.ret.confidence >= min_confidence

C27_CriticalDowngraded ==
    /\ obs.op = "oracle_analyze"
    /\ IsAssessment(obs.ret)
    /\ obs.ret.threat_level = CRITICAL
    /\ obs.ret.confidence < min_confidence
    /\ obs.ret.recommended_action = "require_approval"
    /\ Len(SelectSeq(obs.replies, LAMBDA r : r.kind = "ok")) >= 2


-----------------------------------------------------------------------------
(* Layer 1: PerimeterDefense, constructed from the 'perimeter' section *)

ApiCallTrackerMaxlen == 1000
RateWindowSeconds == 60
SimulatedCpuPercent == 50
SimulatedMemoryMb == 256

\* an assessment with its confidence
AssessmentWith(id, level, confidence, rec, layer) ==
    [kind |-> "assessment", action_id |-> id, threat_level |-> level,
     confidence |-> confidence, recommended_action |-> rec,
     analysis_layer |-> layer]

\* an action as the perimeter reads it
PerimeterAction(id, agent, type, parameters) ==
    [action_id |-> id, agent_id |-> agent, action_type |-> type,
     parameters |-> parameters]

\* the position of the first character of s, from position `from` on, that
\* is one of chars; Len(s) + 1 when there is none
FirstOf(s, chars, from) ==
    IF \E i \in from..Len(s) : s[i] \in chars
    THEN CHOOSE i \in from..Len(s) :
             s[i] \in chars /\ \A j \in from..(i - 1) : s[j] \notin chars
    ELSE Len(s) + 1

\* s.lstrip(chars), s.rstrip(chars)
LStrip(s, chars) ==
    LET first == IF \E i \in 1..Len(s) : s[i] \notin chars
                 THEN CHOOSE i \in 1..Len(s) :
                          s[i] \notin chars /\ \A j \in 1..(i - 1) : s[j] \in chars
                 ELSE Len(s) + 1
    IN  SubSeq(s, first, Len(s))

RStrip(s, chars) ==
    LET last == IF \E i \in 1..Len(s) : s[i] \notin chars
                THEN CHOOSE i \in 1..Len(s) :
                         s[i] \notin chars /\ \A j \in (i + 1)..Len(s) : s[j] \in chars
                ELSE 0
    IN  SubSeq(s, 1, last)

Letters == {UpperCase[i] : i \in 1..Len(UpperCase)}
               \cup {LowerCase[i] : i \in 1..Len(LowerCase)}
SchemeChars ==
    Letters \cup {"0", "1", "2", "3", "4", "5", "6", "7", "8", "9", "+", "-", "."}

\* urllib.parse.urlparse(url): the netloc and the path.  A scheme is a
\* letter followed by scheme characters up to the first ':'; the netloc is
\* what follows '//' up to the first of '/', '?', '#'.
UrlParse(url) ==
    LET colon == FirstOf(url, {":"}, 1)
        has_scheme == /\ 1 < colon /\ colon <= Len(url)
                      /\ url[1] \in Letters
                      /\ \A j \in 1..(colon - 1) : url[j] \in SchemeChars
        rest == IF has_scheme THEN SubSeq(url, colon + 1, Len(url)) ELSE url
        has_netloc == StartsWith(rest, <<"/", "/">>)
        end == FirstOf(rest, {"/", "?", "#"}, 3)
        after == IF has_netloc THEN SubSeq(rest, end, Len(rest)) ELSE rest
    IN  [netloc |-> IF has_netloc THEN SubSeq(rest, 3, end - 1) ELSE <<>>,
         path |-> SubSeq(after, 1, FirstOf(after, {"?", "#"}, 1) - 1)]

\* _extract_domain
ExtractDomain(url) ==
    LET parsed == UrlParse(url)
        named == IF parsed.netloc # <<>> THEN parsed.netloc
                 ELSE SubSeq(parsed.path, 1, FirstOf(parsed.path, {"/"}, 1) - 1)
        domain == RStrip(Lower(named), {"."})
    IN  SubSeq(domain, 1, FirstOf(domain, {":"}, 1) - 1)

\* _domain_matches
DomainMatches(domain, rule_domain) ==
    LET normalized_rule == RStrip(LStrip(Lower(rule_domain), {"*", "."}), {"."})
    IN  domain = normalized_rule \/ EndsWith(domain, <<".">> \o normalized_rule)

\* _check_resource_limits, with the simulated readings of
\* _get_agent_cpu_usage and _get_agent_memory_usage.  When the memory reading
\* is over the limit, max(threat_level, ThreatLevel.CONCERNING) compares two
\* members of a plain Enum and raises TypeError.
CheckResourceLimits(action) ==
    LET max_cpu == Get(config.perimeter, "max_cpu_percent", 80)
        max_memory == Get(config.perimeter, "max_memory_mb", 1024)
    IN  IF SimulatedMemoryMb > max_memory THEN RaisedE("TypeError")
        ELSE IF SimulatedCpuPercent > max_cpu
        THEN AssessmentWith(action.action_id, CONCERNING, Hundredths(90),
                            "throttle", "perimeter")
        ELSE NoneA

\* the agent's deque after _check_api_rate_limit appended the current time
TrackerWithCall(agent_id) ==
    DequeAppend(api_call_tracker[agent_id], now, ApiCallTrackerMaxlen)

\* _check_api_rate_limit
CheckApiRateLimit(action) ==
    LET calls == TrackerWithCall(action.agent_id)
        one_minute_ago == now - RateWindowSeconds
        recent_calls == Cardinality({i \in 1..Len(calls) : calls[i] > one_minute_ago})
        max_calls == Get(config.perimeter, "max_api_calls_per_minute", 100)
    IN  IF action.action_type # "api_call" THEN NoneA
        ELSE IF recent_calls > max_calls
        THEN AssessmentWith(action.action_id, SUSPICIOUS, Hundredths(95),
                            "throttle", "perimeter")
        ELSE NoneA

\* the URL patterns of _check_network_access
SuspiciousUrlPatterns ==
    {<<"e", "v", "a", "l", "(">>, <<"e", "x", "e", "c", "(">>, <<"b", "a", "s", "e", "6", "4">>, <<"s", "h", "e", "l", "l">>, <<"c", "m", "d">>}

\* _check_network_access: the result and whether the domain was added to
\* suspicious_domains
CheckNetworkAccess(action) ==
    LET url == Get(action.parameters, "url", <<>>)
        domain == ExtractDomain(url)
        blocked_domains == Get(config.perimeter, "blocked_domains", <<>>)
        allowed_domains == Get(config.perimeter, "allowed_domains", <<>>)
        result(ret, added) == [ret |-> ret, added |-> added]
    IN  IF action.action_type # "network_request" THEN result(NoneA, FALSE)
        ELSE IF \E i \in 1..Len(blocked_domains) :
                    DomainMatches(domain, Lower(blocked_domains[i]))
        THEN result(AssessmentWith(action.action_id, DANGEROUS, Hundredths(100),
                                   "block", "perimeter"), FALSE)
        ELSE IF /\ allowed_domains # <<>>
                /\ ~ \E i \in 1..Len(allowed_domains) :
                         DomainMatches(domain, Lower(allowed_domains[i]))
        THEN result(AssessmentWith(action.action_id, SUSPICIOUS, Hundredths(80),
                                   "require_approval", "perimeter"), FALSE)
        ELSE IF \E pattern \in SuspiciousUrlPatterns : Contains(Lower(url), pattern)
        THEN result(AssessmentWith(action.action_id, CONCERNING, Hundredths(70),
                                   "sandbox", "perimeter"), TRUE)
        ELSE result(NoneA, FALSE)

\* forbidden_patterns of PerimeterDefense.__init__, as the text each matches
ForbiddenPatterns ==
    {<<"/", "e", "t", "c", "/", "s", "h", "a", "d", "o", "w">>,
     <<"/", "e", "t", "c", "/", "p", "a", "s", "s", "w", "d">>,
     <<".", "s", "s", "h", "/", "i", "d", "_", "r", "s", "a">>,
     <<"C", ":", "\\", "W", "i", "n", "d", "o", "w", "s", "\\", "S", "y", "s", "t", "e", "m", "3", "2", "\\", "c", "o", "n", "f", "i", "g", "\\", "S", "A", "M">>,
     <<".", "a", "w", "s", "/", "c", "r", "e", "d", "e", "n", "t", "i", "a", "l", "s">>,
     <<".", "k", "u", "b", "e", "/", "c", "o", "n", "f", "i", "g">>}

SystemPaths ==
    {<<"/", "e", "t", "c">>, <<"/", "s", "y", "s">>, <<"/", "p", "r", "o", "c">>,
     <<"C", ":", "\\", "W", "i", "n", "d", "o", "w", "s">>,
     <<"C", ":", "\\", "P", "r", "o", "g", "r", "a", "m", " ", "F", "i", "l", "e", "s">>}

\* _check_forbidden_patterns
CheckForbiddenPatterns(action) ==
    LET filepath == Get(action.parameters, "path", <<>>)
        operation == Get(action.parameters, "operation", "")
    IN  IF action.action_type # "file_operation" THEN NoneA
        ELSE IF \E pattern \in ForbiddenPatterns :
                    Contains(Lower(filepath), Lower(pattern))
        THEN AssessmentWith(action.action_id, CRITICAL, Hundredths(100),
                            "kill", "perimeter")
        ELSE IF /\ operation \in {"delete", "chmod", "chown", "execute"}
                /\ \E sys_path \in SystemPaths : StartsWith(filepath, sys_path)
        THEN AssessmentWith(action.action_id, DANGEROUS, Hundredths(90),
                            "block", "perimeter")
        ELSE NoneA

\* _check_self_modification, run for self_modification actions
CheckSelfModification(action) ==
    LET modification_type == Get(action.parameters, "modification_type", "")
    IN  IF action.action_type # "self_modification" THEN NoneA
        ELSE IF modification_type \in {"system_prompt", "safety_constraints",
                                       "monitoring_hooks", "memory_structure"}
        THEN AssessmentWith(action.action_id, CRITICAL, Hundredths(100),
                            "kill", "perimeter")
        ELSE AssessmentWith(action.action_id, SUSPICIOUS, Hundredths(80),
                            "require_approval", "perimeter")

\* PerimeterDefense.analyze
PerimeterAnalyze(action) ==
    \E resource_threat \in {CheckResourceLimits(action)} :
    \E network \in {CheckNetworkAccess(action)} :
    LET threats == SelectSeq(<<resource_threat, CheckApiRateLimit(action),
                               network.ret, CheckForbiddenPatterns(action),
                               CheckSelfModification(action)>>, IsAssessment)
        done(ret) == obs' = [op |-> "perimeter_analyze", action |-> action,
                             ret |-> ret]
    IN  /\ UNCHANGED <<config, monitored_agents, blocked_agents, action_history,
                       action_queue, threat_history, layer_callbacks, metrics,
                       timers, kill_applied, threads, action_sequences,
                       analysis_cache, intent_history, interaction_graph, now>>
        /\ IF IsRaise(resource_threat)
           THEN /\ done(resource_threat)
                /\ UNCHANGED <<api_call_tracker, suspicious_domains>>
           ELSE /\ api_call_tracker' =
                       IF action.action_type = "api_call"
                       THEN [api_call_tracker EXCEPT
                                ![action.agent_id] = TrackerWithCall(action.agent_id)]
                       ELSE api_call_tracker
                /\ suspicious_domains' =
                       IF network.added
                       THEN suspicious_domains
                                \cup {ExtractDomain(action.parameters.url)}
                       ELSE suspicious_domains
                /\ done(IF threats = <<>> THEN NoneA ELSE PyMax(threats))


-----------------------------------------------------------------------------
(* Specification SpecNetwork: network requests analysed by the perimeter *)

malicious_com == <<"m", "a", "l", "i", "c", "i", "o", "u", "s", ".", "c", "o", "m">>
suspicious_pastebin_com ==
    <<"s", "u", "s", "p", "i", "c", "i", "o", "u", "s", "-", "p", "a", "s", "t", "e", "b", "i", "n", ".", "c", "o", "m">>

example_org == <<"e", "x", "a", "m", "p", "l", "e", ".", "o", "r", "g">>

\* the configuration of tests/test_perimeter.py, the 'perimeter' sections of
\* demo_shield.py main() and of _default_config, and one with an allowlist
NetworkConfigs ==
    {[perimeter |-> [blocked_domains |-> <<malicious_com>>]],
     [perimeter |-> [max_api_calls_per_minute |-> 10, max_memory_mb |-> 512,
                     max_cpu_percent |-> 70,
                     blocked_domains |-> <<malicious_com, suspicious_pastebin_com>>]],
     [perimeter |-> [max_api_calls_per_minute |-> 100, max_memory_mb |-> 1024,
                     max_cpu_percent |-> 80, allowed_domains |-> <<>>,
                     blocked_domains |-> <<>>]],
     [perimeter |-> [blocked_domains |-> <<malicious_com>>,
                     allowed_domains |-> <<example_org>>]]}

MaxSuspiciousDomains == 1  \* entries of suspicious_domains

\* hosts: a blocked domain (also capitalised), a subdomain of it, a domain
\* that ends with its characters, an unrelated one
Hosts ==
    {malicious_com,
     <<"M", "a", "l", "i", "c", "i", "o", "u", "s", ".", "C", "O", "M">>,
     <<"a", "p", "i", ".", "m", "a", "l", "i", "c", "i", "o", "u", "s", ".", "c", "o", "m">>,
     <<"n", "o", "t", "m", "a", "l", "i", "c", "i", "o", "u", "s", ".", "c", "o", "m">>,
     example_org}

\* the components of a URL: scheme://[userinfo@]host[:port]path
UrlParts ==
    [scheme : {<<"h", "t", "t", "p", "s">>},
     userinfo : {<<>>, <<"u", "s", "e", "r">>},
     host : Hosts,
     port : {<<>>, <<"4", "4", "3">>},
     path : {<<"/", "p", "a", "y", "l", "o", "a", "d">>, <<"/", "c", "m", "d">>}]

\* the URL of the components
UrlOf(parts) ==
    parts.scheme \o <<":", "/", "/">>
        \o (IF parts.userinfo = <<>> THEN <<>> ELSE parts.userinfo \o <<"@">>)
        \o parts.host
        \o (IF parts.port = <<>> THEN <<>> ELSE <<":">> \o parts.port)
        \o parts.path

InitNetwork == \E cfg \in NetworkConfigs : Constructed(cfg, [l \in Layers |-> 0])

AnalyzeRequest ==
    /\ Cardinality(suspicious_domains) < MaxSuspiciousDomains
    /\ \E parts \in UrlParts :
           PerimeterAnalyze(PerimeterAction("1", "a1", "network_request",
                                            [url |-> UrlOf(parts)]))

NextNetwork == AnalyzeRequest

SpecNetwork == InitNetwork /\ [][NextNetwork]_vars

\* C28: perimeter domain blocking.  For a network_request whose URL host
\* equals a blocked domain or is a subdomain of it, analyze returns DANGEROUS
\* with BLOCK; for any other host, with no allowlist configured and no
\* suspicious substring in the URL, it returns None.
C28_DomainBlocking ==
    (obs.op = "perimeter_analyze" /\ obs.action.action_type = "network_request")
        => \A parts \in UrlParts :
               obs.action.parameters.url = UrlOf(parts)
                   => IF \E i \in DOMAIN config.perimeter.blocked_domains :
                             \/ Lower(parts.host) = config.perimeter.blocked_domains[i]
                             \/ EndsWith(Lower(parts.host),
                                         <<".">> \o config.perimeter.blocked_domains[i])
                      THEN /\ IsAssessment(obs.ret)
                           /\ obs.ret.threat_level = DANGEROUS
                           /\ obs.ret.recommended_action = "block"
                      ELSE ( /\ Get(config.perimeter, "allowed_domains", <<>>) = <<>>
                             /\ ~ \E pattern \in SuspiciousUrlPatterns :
                                      Contains(Lower(UrlOf(parts)), pattern) )
                               => obs.ret = NoneA


-----------------------------------------------------------------------------
(* Specification SpecRate: API calls of two agents analysed by the perimeter *)

MaxCallsPerInstant == 2  \* api_calls of one agent analysed at one instant

\* thresholds: small ones, and one as large as the call tracker
RateConfigs ==
    {[perimeter |-> [max_api_calls_per_minute |-> m]] :
        m \in {1, 2, ApiCallTrackerMaxlen}}

\* instants at which calls are analysed: the second is within the window of
\* the first, the third is a full window after the first and within the
\* window of the second
RateInstants == {0, 1, RateWindowSeconds}

\* the tracker after the perimeter analysed that many api_calls of agent a1
\* at instant 0
TrackerAfterBurst(calls) ==
    [a \in Agents |-> IF a = "a1" THEN [i \in 1..calls |-> 0] ELSE <<>>]

\* a perimeter that analysed nothing yet, or one that analysed a burst of
\* api_calls of agent a1 one short of filling the tracker
InitRate ==
    \E cfg \in RateConfigs : \E calls \in {0, ApiCallTrackerMaxlen - 1} :
        /\ CoreConstructed(cfg, [l \in Layers |-> 0])
        /\ AnalyzersConstructed
        /\ api_call_tracker = TrackerAfterBurst(calls)

\* the api_calls of the agent recorded at the present instant
CallsAtThisInstant(agent) ==
    Cardinality({i \in 1..Len(api_call_tracker[agent]) :
                    api_call_tracker[agent][i] = now})

AnalyzeApiCall ==
    \E agent \in Agents :
        /\ CallsAtThisInstant(agent) < MaxCallsPerInstant
        /\ PerimeterAnalyze(PerimeterAction("1", agent, "api_call", <<>>))

WaitRate == \E t \in RateInstants : t > now /\ Advance(t - now)

NextRate == AnalyzeApiCall \/ WaitRate

SpecRate == InitRate /\ [][NextRate]_vars

\* the calls of the agent that the tracker holds from the last 60 seconds
RecentCalls(agent) ==
    Cardinality({i \in 1..Len(api_call_tracker[agent]) :
                    api_call_tracker[agent][i] > now - RateWindowSeconds})

\* C29: perimeter rate limiting, for every configured threshold and per
\* agent.  An api_call analysed when the agent's api_calls of the preceding 60
\* seconds, this one included, exceed max_api_calls_per_minute yields
\* SUSPICIOUS with THROTTLE; when they are at or under the threshold (and the
\* tracker dropped none of them) analyze returns None; older calls and calls
\* of the other agent are not counted.
C29_RateLimit ==
    [][ (obs'.op = "perimeter_analyze" /\ obs'.action.action_type = "api_call")
            => LET agent == obs'.action.agent_id
                   calls == RecentCalls(agent) + 1
               IN  IF calls > config.perimeter.max_api_calls_per_minute
                   THEN /\ IsAssessment(obs'.ret)
                        /\ obs'.ret.threat_level = SUSPICIOUS
                        /\ obs'.ret.recommended_action = "throttle"
                   ELSE Len(api_call_tracker[agent]) < ApiCallTrackerMaxlen
                            => obs'.ret = NoneA ]_vars


-----------------------------------------------------------------------------
(* Layer 2: HeuristicAnalyzer *)

\* _load_suspicious_patterns, in the order of the list
suspicious_patterns ==
    <<[name |-> "privilege_escalation",
       sequence |-> <<"file_operation", "code_execution", "self_modification">>,
       weight |-> Hundredths(90)],
      [name |-> "data_exfiltration",
       sequence |-> <<"file_operation", "file_operation", "network_request">>,
       weight |-> Hundredths(85)],
      [name |-> "lateral_movement",
       sequence |-> <<"agent_communication", "code_execution", "agent_communication">>,
       weight |-> Hundredths(80)],
      [name |-> "reconnaissance",
       sequence |-> <<"api_call", "api_call", "file_operation", "network_request">>,
       weight |-> Hundredths(70)],
      [name |-> "resource_hoarding",
       sequence |-> <<"resource_allocation", "resource_allocation", "resource_allocation">>,
       weight |-> Hundredths(75)]>>

\* _calculate_threat_level
CalculateThreatLevel(score) ==
    IF score >= Hundredths(90) THEN CRITICAL
    ELSE IF score >= Hundredths(75) THEN DANGEROUS
    ELSE IF score >= Hundredths(60) THEN CONCERNING
    ELSE IF score >= Hundredths(40) THEN SUSPICIOUS
    ELSE SAFE

\* _recommend_action
RecommendAction(threat_level) ==
    IF threat_level = CRITICAL THEN "kill"
    ELSE IF threat_level = DANGEROUS THEN "quarantine"
    ELSE IF threat_level = CONCERNING THEN "sandbox"
    ELSE IF threat_level = SUSPICIOUS THEN "require_approval"
    ELSE "log"

\* an action as the analyzer reads it
HeuristicsAction(id, agent, type, parameters) ==
    [action_id |-> id, agent_id |-> agent, action_type |-> type,
     parameters |-> parameters]

\* sequence[-n:]
LastOf(sequence, n) ==
    SubSeq(sequence, IF Len(sequence) > n THEN Len(sequence) - n + 1 ELSE 1,
           Len(sequence))

\* a matcher that compares the pattern with the oldest actions of the window
DetectSuspiciousPatterns_Oldest(sequence, action) ==
    LET matching == {i \in DOMAIN suspicious_patterns :
                        /\ Len(sequence) >= Len(suspicious_patterns[i].sequence)
                        /\ SubSeq(sequence, 1, Len(suspicious_patterns[i].sequence))
                               = suspicious_patterns[i].sequence}
        pattern == suspicious_patterns[CHOOSE i \in matching : \A j \in matching : i <= j]
        threat_level == CalculateThreatLevel(pattern.weight)
    IN  IF Len(sequence) < 3 \/ matching = {} THEN NoneA
        ELSE AssessmentWith(action.action_id, threat_level, pattern.weight,
                            RecommendAction(threat_level), "heuristics")

\* _detect_suspicious_patterns over the agent's sequence, the type of the
\* action appended: the first pattern of the list that equals the last
\* actions of the sequence
DetectSuspiciousPatterns(sequence, action) ==
    LET matching == {i \in DOMAIN suspicious_patterns :
                        /\ Len(sequence) >= Len(suspicious_patterns[i].sequence)
                        /\ LastOf(sequence, Len(suspicious_patterns[i].sequence))
                               = suspicious_patterns[i].sequence}
        pattern == suspicious_patterns[CHOOSE i \in matching : \A j \in matching : i <= j]
        threat_level == CalculateThreatLevel(pattern.weight)
    IN  IF Len(sequence) < 3 \/ matching = {} THEN NoneA
        ELSE AssessmentWith(action.action_id, threat_level, pattern.weight,
                            RecommendAction(threat_level), "heuristics")

\* sensitivity_levels.get(s, 0)
SensitivityLevel(type) ==
    CASE type = "api_call" -> 1
      [] type \in {"file_operation", "network_request", "agent_communication",
                   "resource_allocation"} -> 2
      [] type = "code_execution" -> 3
      [] type = "self_modification" -> 4
      [] OTHER -> 0

\* a detector that asks for a later mean above 3
DetectEscalation_Above3(sequence, action) ==
    LET recent_levels == [i \in 1..Len(LastOf(sequence, 10)) |->
                              SensitivityLevel(LastOf(sequence, 10)[i])]
        sum1 == Sum(SubSeq(recent_levels, 1, 5))
        sum2 == Sum(SubSeq(recent_levels, 6, Len(recent_levels)))
    IN  IF Len(sequence) < 10 THEN NoneA
        ELSE IF 20 * sum2 > 30 * sum1 + 15 /\ sum2 > 15
        THEN AssessmentWith(action.action_id, DANGEROUS, Hundredths(85),
                            "quarantine", "heuristics")
        ELSE NoneA

\* _detect_escalation over the agent's sequence.  The two means are of five
\* levels each, so with first_half = sum1 / 5 and second_half = sum2 / 5 the
\* test second_half / (first_half + 0.1) > 1.5 is 10 * sum2 > 15 * sum1 + 7.5
\* (twice that in integers), and second_half >= 3 is sum2 >= 15.
DetectEscalation(sequence, action) ==
    LET recent_levels == [i \in 1..Len(LastOf(sequence, 10)) |->
                              SensitivityLevel(LastOf(sequence, 10)[i])]
        sum1 == Sum(SubSeq(recent_levels, 1, 5))
        sum2 == Sum(SubSeq(recent_levels, 6, Len(recent_levels)))
    IN  IF Len(sequence) < 10 THEN NoneA
        ELSE IF 20 * sum2 > 30 * sum1 + 15 /\ sum2 >= 15
        THEN AssessmentWith(action.action_id, DANGEROUS, Hundredths(85),
                            "quarantine", "heuristics")
        ELSE NoneA

\* _detect_behavioral_deviation, given the deviation score of the action
\* (NoneA: no baseline yet, or a score within the agent's threshold)
DetectBehavioralDeviation(action, deviation_score) ==
    IF deviation_score = NoneA THEN NoneA
    ELSE AssessmentWith(action.action_id, CalculateThreatLevel(deviation_score.n),
                        deviation_score.n,
                        RecommendAction(CalculateThreatLevel(deviation_score.n)),
                        "heuristics")

\* _detect_temporal_anomalies, given whether the timings of the agent's
\* actions of this type show a burst
DetectTemporalAnomalies(action, burst) ==
    IF burst
    THEN AssessmentWith(action.action_id, SUSPICIOUS, Hundredths(75), "throttle",
                        "heuristics")
    ELSE NoneA

InteractionWindowSeconds == 60
MaxRecentInteractions == 10

\* an action with the timestamp its creator gave it
TimedAction(id, agent, type, parameters, timestamp) ==
    [action_id |-> id, agent_id |-> agent, action_type |-> type,
     parameters |-> parameters, timestamp |-> timestamp]

\* the target of an agent_communication action, "" when it has none
TargetOf(action) ==
    IF action.action_type # "agent_communication" THEN ""
    ELSE Get(action.parameters, "target_agent", "")

\* profile['interaction_graph'][target_agent] after add(action.timestamp):
\* a set of timestamps
InteractionsWith(action) ==
    interaction_graph[action.agent_id][TargetOf(action)]
        \cup {Get(action, "timestamp", now)}

\* _detect_suspicious_interactions
DetectSuspiciousInteractions(action) ==
    IF action.action_type # "agent_communication" THEN NoneA
    ELSE IF Get(action.parameters, "target_agent", "") = "" THEN NoneA
    ELSE LET recent_interactions ==
                 {ts \in InteractionsWith(action) : ts > now - InteractionWindowSeconds}
         IN  IF Cardinality(recent_interactions) > MaxRecentInteractions
             THEN AssessmentWith(action.action_id, CONCERNING, Hundredths(80),
                                 "sandbox", "heuristics")
             ELSE NoneA

\* HeuristicAnalyzer.analyze.  profile carries what the detectors of
\* deviation and timing find in the agent's profile:
\* [deviation_score, burst].
HeuristicsAnalyze(action, profile) ==
    \E sequences \in {AnalyzerObserves(action)} :
    LET sequence == sequences[action.agent_id]
        threats == SelectSeq(<<DetectSuspiciousPatterns(sequence, action),
                               DetectBehavioralDeviation(action, profile.deviation_score),
                               DetectTemporalAnomalies(action, profile.burst),
                               DetectSuspiciousInteractions(action),
                               DetectEscalation(sequence, action)>>, IsAssessment)
    IN  /\ action_sequences' = sequences
        /\ interaction_graph' =
               IF TargetOf(action) = "" THEN interaction_graph
               ELSE [interaction_graph EXCEPT
                        ![action.agent_id][TargetOf(action)] = InteractionsWith(action)]
        /\ obs' = [op |-> "heuristics_analyze", action |-> action,
                   pattern |-> DetectSuspiciousPatterns(sequence, action),
                   interaction |-> DetectSuspiciousInteractions(action),
                   escalation |-> DetectEscalation(sequence, action),
                   ret |-> IF threats = <<>> THEN NoneA ELSE PyMax(threats)]
        /\ UNCHANGED <<config, monitored_agents, blocked_agents, action_history,
                       action_queue, threat_history, layer_callbacks, metrics,
                       timers, kill_applied, threads, analysis_cache,
                       intent_history, api_call_tracker, suspicious_domains, now>>


-----------------------------------------------------------------------------
(* Specification SpecHeuristics: actions of two agents analysed by the
   heuristics layer *)

MaxAnalysed == 5  \* action types held in the windows of the two agents

\* the configuration of tests/test_heuristics.py, the 'heuristics' section
\* of demo_shield.py main(), and one whose window holds one pattern only
HeuristicsConfigs ==
    {[heuristics |-> [enable_adaptive_learning |-> FALSE]],
     [heuristics |-> [anomaly_threshold |-> Hundredths(60),
                      enable_adaptive_learning |-> TRUE]],
     [heuristics |-> [enable_adaptive_learning |-> FALSE, pattern_window_size |-> 3]]}

\* the types of the privilege-escalation pattern, and one outside it
AnalysedTypes == {"file_operation", "code_execution", "self_modification", "api_call"}

\* what the profile of the agent gives the other detectors: nothing, a burst
\* of actions, or a deviation score over the threshold
Profiles ==
    {[deviation_score |-> NoneA, burst |-> FALSE],
     [deviation_score |-> NoneA, burst |-> TRUE],
     [deviation_score |-> Number(Hundredths(80)), burst |-> FALSE]}

InitHeuristics ==
    \E cfg \in HeuristicsConfigs : Constructed(cfg, [l \in Layers |-> 0])

AnalyzeAction ==
    /\ Len(action_sequences["a1"]) + Len(action_sequences["a2"]) < MaxAnalysed
    /\ \E agent \in Agents : \E type \in AnalysedTypes : \E profile \in Profiles :
           HeuristicsAnalyze(HeuristicsAction("1", agent, type, <<>>), profile)

NextHeuristics == AnalyzeAction

SpecHeuristics == InitHeuristics /\ [][NextHeuristics]_vars

(* Claims about the heuristics layer *)

\* C30: the pattern matcher.  Whenever the last three action types analysed
\* for one agent are file_operation, code_execution, self_modification in
\* that order, whatever the agent did before and whatever the other agent
\* did, analyze returns an assessment of level DANGEROUS or higher.
C30_PrivilegeEscalationPattern ==
    (obs.op = "heuristics_analyze"
        /\ LastOf(action_sequences[obs.action.agent_id], 3)
               = <<"file_operation", "code_execution", "self_modification">>)
        => /\ IsAssessment(obs.ret)
           /\ obs.ret.threat_level >= DANGEROUS

\* the pattern completed by an agent that did something else before, the
\* other agent having acted too
C30_PatternAfterOtherActions ==
    /\ obs.op = "heuristics_analyze"
    /\ obs.action.agent_id = "a1"
    /\ action_sequences["a1"]
           = <<"api_call", "file_operation", "code_execution", "self_modification">>
    /\ action_sequences["a2"] # <<>>
    /\ IsAssessment(obs.ret)
    /\ obs.ret.threat_level = CRITICAL
    /\ obs.ret.recommended_action = "kill"


-----------------------------------------------------------------------------
(* Specification SpecEscalation: one agent's actions analysed by the
   heuristics layer after five earlier ones *)

MaxRamp == 6  \* actions analysed after the first five

\* the configuration of tests/test_heuristics.py and the 'heuristics'
\* section of demo_shield.py main()
EscalationConfigs ==
    {[heuristics |-> [enable_adaptive_learning |-> FALSE]],
     [heuristics |-> [anomaly_threshold |-> Hundredths(60),
                      enable_adaptive_learning |-> TRUE]]}

\* the first five actions of the agent: the ones of
\* test_detect_escalation_sequence, five of the lowest sensitivity, five of
\* the highest, and a mix
EarlierFive ==
    {<<"api_call", "api_call", "file_operation", "file_operation", "network_request">>,
     <<"api_call", "api_call", "api_call", "api_call", "api_call">>,
     <<"self_modification", "self_modification", "self_modification",
       "self_modification", "self_modification">>,
     <<"file_operation", "code_execution", "file_operation", "code_execution",
       "file_operation">>}

\* one type of each sensitivity
RampTypes == {"api_call", "file_operation", "code_execution", "self_modification"}

\* what the profile gives the other detectors: nothing, or a deviation
\* score over the threshold
RampProfiles == {profile \in Profiles : ~ profile.burst}

\* an analyzer that analysed five actions of agent a1
InitEscalation ==
    \E cfg \in EscalationConfigs : \E earlier \in EarlierFive :
        /\ CoreConstructed(cfg, [l \in Layers |-> 0])
        /\ action_sequences = [a \in Agents |-> IF a = "a1" THEN earlier ELSE <<>>]
        /\ analysis_cache = <<>>
        /\ intent_history = <<>>
        /\ api_call_tracker = [a \in Agents |-> <<>>]
        /\ suspicious_domains = {}
        /\ interaction_graph = [a \in Agents |-> [target \in Agents |-> {}]]
        /\ now = 0

AnalyzeRamp ==
    /\ Len(action_sequences["a1"]) < 5 + MaxRamp
    /\ \E type \in RampTypes : \E profile \in RampProfiles :
           HeuristicsAnalyze(HeuristicsAction("1", "a1", type, <<>>), profile)

NextEscalation == AnalyzeRamp

SpecEscalation == InitEscalation /\ [][NextEscalation]_vars

\* the sum of the sensitivities of the types
SumOfLevels(types) == Sum([i \in 1..Len(types) |-> SensitivityLevel(types[i])])

\* C31: the escalation detector.  Once the agent has ten analysed actions,
\* if over its last ten the mean sensitivity of the later five is at least 3
\* and more than 1.5 times the mean of the earlier five plus 0.1 (in sums of
\* five: later >= 15 and 4 * later > 6 * earlier + 3), the detector fires and
\* analyze returns DANGEROUS or higher; with fewer than ten actions the
\* detector does not fire.
C31_EscalationDetector ==
    obs.op = "heuristics_analyze"
        => LET sequence == action_sequences[obs.action.agent_id]
               ten == LastOf(sequence, 10)
               earlier == SumOfLevels(SubSeq(ten, 1, 5))
               later == SumOfLevels(SubSeq(ten, 6, 10))
           IN  IF Len(sequence) < 10
               THEN obs.escalation = NoneA
               ELSE (later >= 15 /\ 4 * later > 6 * earlier + 3)
                        => /\ IsAssessment(obs.escalation)
                           /\ IsAssessment(obs.ret)
                           /\ obs.ret.threat_level >= DANGEROUS

\* the ten actions of test_detect_escalation_sequence, the detector firing
C31_TestSequenceEscalates ==
    /\ obs.op = "heuristics_analyze"
    /\ action_sequences["a1"]
           = <<"api_call", "api_call", "file_operation", "file_operation",
               "network_request", "code_execution", "code_execution",
               "code_execution", "self_modification", "self_modification">>
    /\ IsAssessment(obs.escalation)
    /\ obs.pattern = NoneA
    /\ obs.ret.threat_level = DANGEROUS
    /\ obs.ret.recommended_action = "quarantine"


\* what the callbacks of the layer did, in the order of their registration
DidOfLayer(layer) ==
    LET mine == SelectSeq(obs.calls, LAMBDA c : c.layer = layer)
    IN  [i \in 1..Len(mine) |-> mine[i].did]

\* C32: several callbacks on one layer.  The result of a layer that ran is
\* the callback result of the highest threat level, the one of the callback
\* registered first when several tie at that level, and None when no callback
\* returned a result.
C32_FirstSeenMax ==
    obs.op = "process_action"
        => \A layer \in PipeLayers :
               LET did == DidOfLayer(layer)
                   returned == {i \in 1..Len(did) : IsAssessment(did[i])}
               IN  did # <<>>
                       => IF returned = {} THEN obs[layer] = NoneA
                          ELSE \E i \in returned :
                                   /\ obs[layer] = did[i]
                                   /\ \A j \in returned :
                                          /\ did[j].threat_level <= did[i].threat_level
                                          /\ did[j].threat_level = did[i].threat_level
                                                 => i <= j

\* two callbacks of one layer returned different results of one level, and
\* the layer's result is the first
C32_TieWonByFirst ==
    /\ obs.op = "process_action"
    /\ \E layer \in PipeLayers :
           LET did == DidOfLayer(layer)
           IN  /\ Len(did) = 2
               /\ IsAssessment(did[1]) /\ IsAssessment(did[2])
               /\ did[1].threat_level = did[2].threat_level
               /\ did[1] # did[2]
               /\ obs[layer] = did[1]


-----------------------------------------------------------------------------
(* Specification SpecAggregate: _aggregate_assessments over layer results
   that carry reasons and a confidence *)

\* a layer result with its confidence and its reasons
Detailed(assessment, confidence, reasons) ==
    assessment @@ [confidence |-> confidence, reasons |-> reasons]

\* avg_confidence of max_threat alone
AvgConfidence_OfMaxThreat(valid_assessments) == PyMax(valid_assessments).confidence

\* total_confidence / len(valid_assessments)
AvgConfidence(valid_assessments) ==
    Sum([i \in 1..Len(valid_assessments) |-> valid_assessments[i].confidence])
        \div Len(valid_assessments)

\* all_reasons: the reasons of each assessment appended in turn
RECURSIVE AllReasons(_)
AllReasons(valid_assessments) ==
    IF valid_assessments = <<>> THEN <<>>
    ELSE Head(valid_assessments).reasons \o AllReasons(Tail(valid_assessments))

\* _aggregate_assessments, with the confidence and the reasons
AggregateDetailed(perimeter_assessment, heuristics_assessment, oracle_assessment) ==
    LET valid_assessments ==
            SelectSeq(<<perimeter_assessment, heuristics_assessment,
                        oracle_assessment>>, IsAssessment)
        final == AggregateAssessments(perimeter_assessment, heuristics_assessment,
                                      oracle_assessment)
    IN  IF valid_assessments = <<>>
        THEN Detailed(final, Hundredths(100), <<"no threat detected in any layer">>)
        ELSE Detailed(final, AvgConfidence(valid_assessments),
                      AllReasons(valid_assessments))

\* the confidences and the reasons a layer's result carries: "x" is a reason
\* every layer may give
LayerConfidences == {Hundredths(50), Hundredths(95)}
LayerReasons(layer) == {<<>>, <<layer>>, <<layer, "x">>, <<"x">>}

\* what a layer whose callbacks ran hands to the aggregation: None, or a
\* result under the level at which the perimeter returns at once
LayerResults(action, layer) ==
    {NoneA} \cup
    {Detailed(ThreatAssessment(action.action_id, level, "log", layer), c, r) :
        level \in {SUSPICIOUS, CONCERNING}, c \in LayerConfidences,
        r \in LayerReasons(layer)}

InitAggregate ==
    \E cfg \in IsolationConfigs : Constructed(cfg, [l \in Layers |-> 1])

\* the aggregation step of process_action; the oracle has a result only when
\* the action was escalated to it
AggregateOnce ==
    /\ obs.op = "init"
    /\ \E action \in {AIAction("1", "a1", "api_call")} :
       \E p \in LayerResults(action, "perimeter") :
       \E h \in LayerResults(action, "heuristics") :
       \E o \in LayerResults(action, "oracle") :
           /\ IsAssessment(o) => ShouldEscalateToOracle(action, p, h)
           /\ obs' = [op |-> "aggregate", perimeter |-> p, heuristics |-> h,
                      oracle |-> o, ret |-> AggregateDetailed(p, h, o)]
           /\ UNCHANGED <<config, monitored_agents, blocked_agents, action_history,
                          action_queue, threat_history, layer_callbacks, metrics,
                          timers, kill_applied, threads, action_sequences, analyzers>>

NextAggregate == AggregateOnce

SpecAggregate == InitAggregate /\ [][NextAggregate]_vars

\* the reasons and the confidence of a layer result, nothing for None
ReasonsOf(r) == IF IsAssessment(r) THEN r.reasons ELSE <<>>
ConfidencesOf(r) == IF IsAssessment(r) THEN <<r.confidence>> ELSE <<>>

\* C33: when a layer gave a result, the reasons of the aggregated assessment
\* are the reasons of the non-null layer results, concatenated in the order
\* perimeter, heuristics, oracle, and its confidence is the arithmetic mean
\* of the confidences of those results.
C33_ReasonsAndConfidence ==
    (obs.op = "aggregate"
        /\ \E r \in {obs.perimeter, obs.heuristics, obs.oracle} : IsAssessment(r))
        => LET confidences == ConfidencesOf(obs.perimeter)
                                  \o ConfidencesOf(obs.heuristics)
                                  \o ConfidencesOf(obs.oracle)
           IN  /\ obs.ret.reasons = ReasonsOf(obs.perimeter)
                                        \o ReasonsOf(obs.heuristics)
                                        \o ReasonsOf(obs.oracle)
               /\ obs.ret.confidence * Len(confidences) = Sum(confidences)

\* three layers contributed, two giving the same reason, with different
\* confidences
C33_ThreeLayersContribute ==
    /\ obs.op = "aggregate"
    /\ obs.perimeter # NoneA /\ obs.heuristics # NoneA /\ obs.oracle # NoneA
    /\ obs.ret.reasons = <<"perimeter", "x", "x", "oracle">>
    /\ obs.perimeter.confidence # obs.heuristics.confidence
    /\ obs.heuristics.threat_level > obs.perimeter.threat_level
    /\ obs.ret.confidence = Hundredths(80)


-----------------------------------------------------------------------------
(* Specification SpecResource: the perimeter under resource limits below and
   above the readings of CPU and memory *)

\* limits above both readings (the 'perimeter' section of demo_shield.py
\* main()), a CPU limit below the reading, a memory limit below the reading,
\* and both
ResourceConfigs ==
    {[perimeter |-> [max_api_calls_per_minute |-> 1, max_memory_mb |-> 512,
                     max_cpu_percent |-> 70, blocked_domains |-> <<malicious_com>>]],
     [perimeter |-> [max_api_calls_per_minute |-> 1, max_cpu_percent |-> 40,
                     blocked_domains |-> <<malicious_com>>]],
     [perimeter |-> [max_api_calls_per_minute |-> 1, max_memory_mb |-> 200,
                     blocked_domains |-> <<malicious_com>>]],
     [perimeter |-> [max_api_calls_per_minute |-> 1, max_memory_mb |-> 200,
                     max_cpu_percent |-> 40, blocked_domains |-> <<malicious_com>>]]}

InitResource ==
    \E cfg \in ResourceConfigs : Constructed(cfg, [l \in Layers |-> 0])

\* a request to a blocked domain and one to another domain
AnalyzeHost ==
    \E agent \in Agents : \E host \in {malicious_com, example_org} :
        PerimeterAnalyze(PerimeterAction("1", agent, "network_request",
            [url |-> UrlOf([scheme |-> <<"h", "t", "t", "p", "s">>, userinfo |-> <<>>,
                            host |-> host, port |-> <<>>, path |-> <<"/">>])]))

NextResource == AnalyzeApiCall \/ AnalyzeHost \/ WaitRate

SpecResource == InitResource /\ [][NextResource]_vars

\* C34: the perimeter checks combined.  analyze does not raise, and when the
\* CPU or the memory reading is above its configured limit the result is an
\* assessment at least as severe as the resource-limit result, CONCERNING
\* with THROTTLE: that result itself unless a check of a higher level fired.
C34_ResourceLimitCombined ==
    obs.op = "perimeter_analyze"
        => /\ ~ IsRaise(obs.ret)
           /\ ( \/ SimulatedCpuPercent > Get(config.perimeter, "max_cpu_percent", 80)
                \/ SimulatedMemoryMb > Get(config.perimeter, "max_memory_mb", 1024) )
                  => /\ IsAssessment(obs.ret)
                     /\ obs.ret.threat_level >= CONCERNING
                     /\ obs.ret.threat_level = CONCERNING
                            => obs.ret.recommended_action = "throttle"


-----------------------------------------------------------------------------
(* Specification SpecInteraction: messages of agent a1 to agent a2 analysed
   by the heuristics layer *)

MaxMessages == 11  \* messages analysed, and seconds the clock advances

InitInteraction ==
    \E cfg \in EscalationConfigs : Constructed(cfg, [l \in Layers |-> 0])

\* a message to a2 created and analysed at the present second
AnalyzeMessage ==
    /\ Len(action_sequences["a1"]) < MaxMessages
    /\ HeuristicsAnalyze(TimedAction("1", "a1", "agent_communication",
                                     [target_agent |-> "a2"], now),
                         [deviation_score |-> NoneA, burst |-> FALSE])

\* a second passes
Tick1 == now < MaxMessages /\ Advance(1)

NextInteraction == AnalyzeMessage \/ Tick1

SpecInteraction == InitInteraction /\ [][NextInteraction]_vars

\* C35: the interaction detector.  For an agent_communication action with a
\* target, when the agent sent more than 10 messages to the target in the
\* last 60 seconds, this one included, the detector fires and analyze returns
\* CONCERNING or higher, SANDBOX for CONCERNING; messages carrying the same
\* timestamp count each.  (Every message of a1 here goes to a2 within 60
\* seconds, so the agent's sequence holds one entry per message.)
C35_InteractionDetector ==
    (obs.op = "heuristics_analyze"
        /\ TargetOf(obs.action) # ""
        /\ now < InteractionWindowSeconds
        /\ Len(action_sequences[obs.action.agent_id]) > MaxRecentInteractions)
        => /\ IsAssessment(obs.interaction)
           /\ IsAssessment(obs.ret)
           /\ obs.ret.threat_level >= CONCERNING
           /\ obs.ret.threat_level = CONCERNING
                  => obs.ret.recommended_action = "sandbox"


\* C36: status and block set agree.  In every reachable state a registered
\* agent is in the blocked set if and only if its status is 'quarantined' or
\* 'killed'.
C36_StatusMatchesBlockSet ==
    \A a \in DOMAIN monitored_agents :
        a \in blocked_agents <=> monitored_agents[a].status \in {"quarantined", "killed"}


\* C37: the assessment process_action(a) returns carries the action_id of
\* a, whichever layers gave a result, and when none did.
C37_AssessmentNamesItsAction ==
    (obs.op = "process_action" /\ IsAssessment(obs.ret))
        => obs.ret.action_id = obs.action.action_id

\* C38: the assessment OracleAnalyzer.analyze(a) returns carries the
\* action_id of a, on a cache miss and on a cache hit.
C38_OracleAssessmentNamesItsAction ==
    (obs.op = "oracle_analyze" /\ IsAssessment(obs.ret))
        => obs.ret.action_id = obs.action.action_id



-----------------------------------------------------------------------------
(* Specification SpecQuarantine: quarantines of agents that are, or are not,
   in quarantine already *)

MaxPendingTimers == 2  \* release timers pending at once

\* a quarantine of two clock ticks
QuarantineConfig ==
    [enforcement |-> [quarantine_duration_seconds |-> QuarantineTicks + 1]]

InitQuarantine == Constructed(QuarantineConfig, [l \in Layers |-> 0])

SubmitOne ==
    \E a \in Agents :
        /\ SubmitAction(AIAction(NextActionId, a, "code_execution"))
        /\ Len(action_history') <= MaxActions

\* enforce_action with a QUARANTINE assessment of a submitted action
EnforceQuarantine ==
    \E action \in Range(action_history) :
        /\ EnforceAction(ThreatAssessment(action.action_id, DANGEROUS, "quarantine",
                                          "aggregate"), <<>>)
        /\ Len(timers') <= MaxPendingTimers

NextQuarantine == SubmitOne \/ EnforceQuarantine \/ Release \/ Tick

SpecQuarantine == InitQuarantine /\ [][NextQuarantine]_vars


-----------------------------------------------------------------------------
(* Specification SpecInterference: the actions of one agent analysed by the
   heuristics layer with the actions of another agent between them *)

\* the configuration of tests/test_heuristics.py, and one whose window holds
\* one pattern only
InterferenceConfigs ==
    {[heuristics |-> [enable_adaptive_learning |-> FALSE]],
     [heuristics |-> [enable_adaptive_learning |-> FALSE, pattern_window_size |-> 3]]}

\* the first five actions of agent a1 that start at the lowest sensitivity
LowEarlierFive == {earlier \in EarlierFive : earlier[1] = "api_call"}

\* an analyzer that analysed five actions of agent a1: its window holds the
\* last pattern_window_size of them
InitInterference ==
    \E cfg \in InterferenceConfigs : \E earlier \in LowEarlierFive :
        /\ CoreConstructed(cfg, [l \in Layers |-> 0])
        /\ action_sequences =
               [a \in Agents |->
                   IF a = "a1"
                   THEN LastOf(earlier, Get(cfg.heuristics, "pattern_window_size",
                                            PatternWindowSize))
                   ELSE <<>>]
        /\ analysis_cache = <<>>
        /\ intent_history = <<>>
        /\ api_call_tracker = [a \in Agents |-> <<>>]
        /\ suspicious_domains = {}
        /\ interaction_graph = [a \in Agents |-> [target \in Agents |-> {}]]
        /\ now = 0

\* analyze of an action of agent a1
AnalyzeOwn ==
    /\ Len(action_sequences["a1"]) < 5 + MaxRamp
    /\ \E type \in RampTypes :
           HeuristicsAnalyze(HeuristicsAction("1", "a1", type, <<>>),
                             [deviation_score |-> NoneA, burst |-> FALSE])

\* analyze of an action of agent a2, of the most sensitive type, twice at most
AnalyzeOther ==
    /\ Len(action_sequences["a2"]) < 2
    /\ HeuristicsAnalyze(HeuristicsAction("2", "a2", "self_modification", <<>>),
                         [deviation_score |-> NoneA, burst |-> FALSE])

NextInterference == AnalyzeOwn \/ AnalyzeOther

SpecInterference == InitInterference /\ [][NextInterference]_vars

\* C39: a quarantine lasts its full duration.  While the release timer of an
\* agent's most recent quarantine has time left, the agent is in the blocked
\* set: a timer of an earlier quarantine does not release it.
C39_QuarantineLastsItsDuration ==
    \A i \in 1..Len(timers) :
        ( /\ timers[i].remaining > 0
          /\ \A j \in (i + 1)..Len(timers) : timers[j].agent_id # timers[i].agent_id )
            => timers[i].agent_id \in blocked_agents



\* C40: agents do not interfere in the heuristics layer.  An analyze of an
\* action of one agent leaves the window of every other agent as it was; the
\* outcome of the pattern matcher and of the escalation detector is the one
\* the detectors give on the agent's own window, so it is the same in every
\* run in which the agent's own actions are the same; and no window holds
\* more than pattern_window_size entries.
C40_AgentsDoNotInterfere ==
    [][obs'.op = "heuristics_analyze"
          => LET action == obs'.action
                 own == DequeAppend(action_sequences[action.agent_id],
                                    action.action_type, pattern_window_size)
             IN  /\ \A other \in Agents \ {action.agent_id} :
                        action_sequences'[other] = action_sequences[other]
                 /\ action_sequences'[action.agent_id] = own
                 /\ obs'.pattern = DetectSuspiciousPatterns(own, action)
                 /\ obs'.escalation = DetectEscalation(own, action)
                 /\ \A a \in Agents : Len(action_sequences'[a]) <= pattern_window_size]_vars

\* the escalation detector firing for agent a1 over ten actions of its own,
\* agent a2 having done the most sensitive actions in between
C40_EscalationWithOtherAgentActing ==
    /\ obs.op = "heuristics_analyze"
    /\ obs.action.agent_id = "a1"
    /\ IsAssessment(obs.escalation)
    /\ Len(action_sequences["a1"]) > 10
    /\ Len(action_sequences["a2"]) = 2


====
